---- MODULE Spec2Model ----
(***************************************************************************)
(* A model of k8s-backup: the restore sequencer (pkg/restore), the applier *)
(* (pkg/k8s), the local snapshot store (pkg/storage) and the concurrent    *)
(* collector (pkg/backup).  Each part is a state machine of its own with   *)
(* its own specification; the variables of the parts that a specification  *)
(* does not exercise stay at their idle values.                            *)
(***************************************************************************)
EXTENDS Integers, Sequences, FiniteSets, TLC

VARIABLES
    sPc, sIn1, sIn2, sOut1, sOut2,      \* the sequencer on two orderings of one list
    rPc,            \* RestoreBackup: "idle", "load", "loop", "done"
    rOpts,          \* types.RestoreOptions and whether the manager has a client
    rLoaded,        \* what LoadBackup returns for options.BackupPath
    rSorted,        \* sortedResources
    rIdx,           \* the position of the replay loop in sortedResources
    rResult,        \* RestoreResult
    rRet,           \* what RestoreBackup returned: result nil or not, and the error
    rCancelled,     \* ctx.Err() != nil
    rRun,           \* the number of the RestoreBackup call
    rFails,         \* Resource API calls that failed so far
    rProgress,      \* the completed counts the progress callback was handed
    rLog,           \* history: one entry per record the replay loop handled
    target,         \* the objects of the target cluster, by (kind, namespace, name)
    stPc,           \* the store: "idle", "input", "saved", "loaded"
    stMeta,         \* the metadata given to SaveBackup
    stRecs,         \* the records given to SaveBackup
    stRound,        \* 1: Compress as given, 2: the other value
    stCancelled,    \* ctx.Err() != nil
    fs,             \* the filesystem
    stSaves,        \* what each SaveBackup returned
    stLoads,        \* what each LoadBackup returned
    bPc,            \* CreateBackup: "idle", "start", "collect", "done"
    bOpts,          \* types.BackupOptions
    bCancelled,     \* ctx.Err() != nil
    bFailed,        \* the Resource API calls that failed: namespace, type, task, position
    bPlan,          \* namespacesToBackup, resourceTypesToBackup, k8sVersion
    bTasks,         \* the goroutines: position, local resources and errors
    resourceChan,   \* the buffered channels
    errorChan,
    bClosed,        \* the channels that are closed
    bNil,           \* the channels the select loop has set to nil
    allResources,
    bErrors,        \* the local errors of CreateBackup: the warnings
    bProgress,      \* what the progress callback was handed
    bRet,           \* what CreateBackup returned
    fPc, fIn, fOpts, fOut,  \* filterResources on one list and one pair of include-sets
    lPc,            \* the listing: "idle", "setup", "listed", "loaded"
    lSteps,         \* how many times the base path was written to
    lOut,           \* what ListBackups, or LoadBackup, returned
    lLive,          \* the names saved and not deleted since
    lClean,         \* only SaveBackup and DeleteBackup calls that returned nil so far
    wPc,            \* SaveBackup step by step: "idle", "mkdir", "dirs", "files",
                    \* "manifest", "compress", "returned"
    wIdx,           \* the position of the current loop in the records
    wMeta,          \* the metadata given to SaveBackup
    wRecs,          \* the records given to SaveBackup
    wCancelled,     \* ctx.Err() != nil
    wIo,            \* the write that failed, if one did
    wErr,           \* what SaveBackup returned
    wBefore,        \* what the snapshot of an earlier save loaded as, if there was one
    nPc,            \* normalization: "idle", "input", "converted", "again"
    nObj,           \* the object as the cluster returned it
    nOut,           \* what convertToResourceWithContent made of it
    nAgain,         \* the object after a second cleanObject
    ePc,            \* the counts of CreateBackup: "idle", "start", "collect", "done"
    eNamespaces,    \* len(namespacesToBackup)
    eResourceTypes, \* resourceTypesToBackup
    eLeft,          \* the tasks whose records have not been received
    eProgress,      \* types.Progress: Total and Completed
    eReports        \* the Progress values handed to the callback

sortVars == <<sPc, sIn1, sIn2, sOut1, sOut2>>
restoreVars == <<rPc, rOpts, rLoaded, rSorted, rIdx, rResult, rRet, rCancelled,
                 rRun, rFails, rLog, target, rProgress>>
storeVars == <<stPc, stMeta, stRecs, stRound, stCancelled, fs, stSaves, stLoads>>
backupVars == <<bPc, bOpts, bCancelled, bFailed, bPlan, bTasks, resourceChan,
                errorChan, bClosed, bNil, allResources, bErrors, bProgress, bRet>>
filterVars == <<fPc, fIn, fOpts, fOut>>
listVars == <<lPc, lSteps, lOut, lLive, lClean>>
stepVars == <<wPc, wIdx, wMeta, wRecs, wCancelled, wIo, wErr, wBefore>>
normVars == <<nPc, nObj, nOut, nAgain>>
countVars == <<ePc, eNamespaces, eResourceTypes, eLeft, eProgress, eReports>>
vars == <<sortVars, restoreVars, storeVars, backupVars, filterVars, listVars,
          stepVars, normVars, countVars>>

\* What the actions of one part leave alone: the variables of the other parts.
SortFrame ==
    UNCHANGED <<restoreVars, storeVars, backupVars, filterVars, listVars, stepVars, normVars, countVars>>
RestoreFrame ==
    UNCHANGED <<sortVars, storeVars, backupVars, filterVars, listVars, stepVars, normVars, countVars>>
StoreFrame ==
    UNCHANGED <<sortVars, restoreVars, backupVars, filterVars, listVars, stepVars, normVars, countVars>>
FilterFrame ==
    UNCHANGED <<sortVars, restoreVars, storeVars, backupVars, listVars, stepVars, normVars, countVars>>
\* The collector saves through the store: it leaves all but the filesystem alone
BackupFrame ==
    UNCHANGED <<sortVars, restoreVars, filterVars, listVars, stepVars, normVars, countVars,
                stPc, stMeta, stRecs, stRound, stCancelled, stSaves, stLoads>>
\* The listing reads and writes the filesystem of the store
ListFrame ==
    UNCHANGED <<sortVars, restoreVars, backupVars, filterVars, stepVars, normVars, countVars,
                stPc, stMeta, stRecs, stRound, stCancelled, stSaves, stLoads>>
\* The steps of a save write the filesystem of the store
StepFrame ==
    UNCHANGED <<sortVars, restoreVars, backupVars, filterVars, listVars, normVars, countVars,
                stPc, stMeta, stRecs, stRound, stCancelled, stSaves, stLoads>>
NormFrame ==
    UNCHANGED <<sortVars, restoreVars, storeVars, backupVars, filterVars, listVars,
                stepVars, countVars>>
CountFrame ==
    UNCHANGED <<sortVars, restoreVars, storeVars, backupVars, filterVars, listVars,
                stepVars, normVars>>

(***************************************************************************)
(* Bounds of the model.                                                    *)
(***************************************************************************)
MaxSortLen == 3
MaxRestoreRecs == 2
MaxRuns == 2
MaxApiFails == 1
MaxStoreRecs == 2
MaxListFails == 2
MaxFilterLen == 2
MaxListSteps == 3
MaxConvertFails == 1
MaxCountNamespaces == 2

(***************************************************************************)
(* Strings.  Go compares strings byte-wise; the strings of the model are   *)
(* listed here in that order and compared by their position.               *)
(***************************************************************************)
StrOrder ==
    <<"", "ConfigMap-c.yaml", "ConfigMap-s.yaml", "Deployment-api.yaml",
      "Namespace-a.yaml", "Namespace-b.yaml", "Namespace-prod.yaml",
      "Secret-db.yaml", "Secret-s.yaml",
      "a", "a.tar.gz", "b", "b.tar.gz", "cluster", "configmap-c.yaml", "configmap-s.yaml",
      "configmaps", "d",
      "default", "deployment-api.yaml", "manifest.yaml", "namespace-a.yaml",
      "namespace-b.yaml", "namespace-prod.yaml", "namespaces", "notes.txt", "pods",
      "prod", "s", "secret-db.yaml", "secret-s.yaml", "secrets", "x">>

StrRank(s) == CHOOSE i \in 1..Len(StrOrder) : StrOrder[i] = s

StrLess(s, t) == StrRank(s) < StrRank(t)

(***************************************************************************)
(* types.ResourceOrder and types.GetResourceOrder.                         *)
(***************************************************************************)
ResourceOrder ==
    <<"CustomResourceDefinition", "ClusterRole", "ClusterRoleBinding",
      "PersistentVolume", "StorageClass", "VolumeSnapshotClass",
      "Namespace",
      "Secret", "ConfigMap", "ServiceAccount", "Role", "RoleBinding",
      "PersistentVolumeClaim",
      "NetworkPolicy", "Service", "Endpoints",
      "Deployment", "StatefulSet", "DaemonSet", "Job", "CronJob",
      "ReplicaSet", "Pod",
      "Ingress", "HorizontalPodAutoscaler", "PodDisruptionBudget", "Event">>

\* The map is filled with the zero-based index of each kind; a kind that is
\* not in the list gets len(ResourceOrder).
GetResourceOrder(kind) ==
    IF \E i \in 1..Len(ResourceOrder) : ResourceOrder[i] = kind
    THEN (CHOOSE i \in 1..Len(ResourceOrder) : ResourceOrder[i] = kind) - 1
    ELSE Len(ResourceOrder)

(***************************************************************************)
(* Manager.sortResourcesByDependency: a copy of the input, sorted with     *)
(* sort.Slice under the comparator of restore.go:213-227.  For slices of   *)
(* at most 12 elements sort.Slice is an insertion sort: element i moves    *)
(* left while it is less than its left neighbour.                          *)
(***************************************************************************)
\* The comparator without its last line: ties within a namespace are left alone.
DependencyLessNoName(a, b) ==
    LET orderI == GetResourceOrder(a.kind)
        orderJ == GetResourceOrder(b.kind)
    IN  IF orderI # orderJ THEN orderI < orderJ
        ELSE IF a.namespace # b.namespace THEN StrLess(a.namespace, b.namespace)
        ELSE FALSE

DependencyLess(a, b) ==
    LET orderI == GetResourceOrder(a.kind)
        orderJ == GetResourceOrder(b.kind)
    IN  IF orderI # orderJ THEN orderI < orderJ
        ELSE IF a.namespace # b.namespace THEN StrLess(a.namespace, b.namespace)
        ELSE StrLess(a.name, b.name)

RECURSIVE InsertFromRight(_, _)
InsertFromRight(s, x) ==
    IF s = <<>> THEN <<x>>
    ELSE IF DependencyLess(x, s[Len(s)])
         THEN Append(InsertFromRight(SubSeq(s, 1, Len(s) - 1), x), s[Len(s)])
         ELSE Append(s, x)

RECURSIVE InsertionSort(_)
InsertionSort(s) ==
    IF s = <<>> THEN <<>>
    ELSE InsertFromRight(InsertionSort(SubSeq(s, 1, Len(s) - 1)), s[Len(s)])

\* The input returned as it came: the sort.Slice call is missing.
sortResourcesByDependencyCopyOnly(resources) == resources

sortResourcesByDependency(resources) == InsertionSort(resources)

(***************************************************************************)
(* The sequencer on its own: a list and one of its permutations are both   *)
(* ordered.                                                                *)
(***************************************************************************)
Rec(k, ns, n) == [kind |-> k, namespace |-> ns, name |-> n]

SortRecords ==
    { Rec("Service", "default", "a"), Rec("Namespace", "default", "a"),
      Rec("Secret", "default", "a"), Rec("Secret", "default", "b"),
      Rec("Secret", "a", "b"), Rec("Namespace", "", "default"),
      Rec("Widget", "default", "a"), Rec("Gadget", "default", "a") }

SeqsUpTo(S, n) == UNION { [1..k -> S] : k \in 0..n }

PermutationsOf(s) ==
    { [i \in 1..Len(s) |-> s[p[i]]] : p \in Permutations(1..Len(s)) }

SortStart ==
    /\ sPc = "input"
    /\ sIn1 \in SeqsUpTo(SortRecords, MaxSortLen)
    /\ sIn2 \in PermutationsOf(sIn1)
    /\ sOut1 = <<>>
    /\ sOut2 = <<>>

SortIdle ==
    /\ sPc = "idle"
    /\ sIn1 = <<>>
    /\ sIn2 = <<>>
    /\ sOut1 = <<>>
    /\ sOut2 = <<>>

SortFirst ==
    /\ sPc = "input"
    /\ sOut1' = sortResourcesByDependency(sIn1)
    /\ sPc' = "first"
    /\ UNCHANGED <<sIn1, sIn2, sOut2>>
    /\ SortFrame

SortSecond ==
    /\ sPc = "first"
    /\ sOut2' = sortResourcesByDependency(sIn2)
    /\ sPc' = "sorted"
    /\ UNCHANGED <<sIn1, sIn2, sOut1>>
    /\ SortFrame

SortNext == SortFirst \/ SortSecond

(***************************************************************************)
(* strings.ToLower on the kinds of the model.                              *)
(***************************************************************************)
LowerTable ==
    << <<"Namespace", "namespace">>, <<"Secret", "secret">>,
       <<"ConfigMap", "configmap">>, <<"Service", "service">>,
       <<"Deployment", "deployment">>, <<"ServiceAccount", "serviceaccount">>,
       <<"StatefulSet", "statefulset">>, <<"Widget", "widget">>,
       <<"Gadget", "gadget">>, <<"secret", "secret">> >>

ToLower(s) ==
    IF \E i \in 1..Len(LowerTable) : LowerTable[i][1] = s
    THEN LowerTable[CHOOSE i \in 1..Len(LowerTable) : LowerTable[i][1] = s][2]
    ELSE s

(***************************************************************************)
(* Manager.getResourceTypePlural and Manager.filterResources.              *)
(***************************************************************************)
pluralMapping ==
    << <<"namespace", "namespaces">>, <<"secret", "secrets">>,
       <<"configmap", "configmaps">>, <<"service", "services">>,
       <<"serviceaccount", "serviceaccounts">>,
       <<"persistentvolume", "persistentvolumes">>,
       <<"persistentvolumeclaim", "persistentvolumeclaims">>,
       <<"deployment", "deployments">>, <<"statefulset", "statefulsets">>,
       <<"daemonset", "daemonsets">>, <<"job", "jobs">>,
       <<"cronjob", "cronjobs">>, <<"role", "roles">>,
       <<"rolebinding", "rolebindings">>, <<"clusterrole", "clusterroles">>,
       <<"clusterrolebinding", "clusterrolebindings">>,
       <<"ingress", "ingresses">>, <<"networkpolicy", "networkpolicies">>,
       <<"poddisruptionbudget", "poddisruptionbudgets">>,
       <<"storageclass", "storageclasses">> >>

getResourceTypePlural(resourceType) ==
    IF \E i \in 1..Len(pluralMapping) : pluralMapping[i][1] = resourceType
    THEN pluralMapping[CHOOSE i \in 1..Len(pluralMapping) :
                           pluralMapping[i][1] = resourceType][2]
    ELSE resourceType \o "s"

filterKeepsNoClusterToken(resource, options) ==
    /\ options.namespaces # {} =>
          IF resource.namespace = ""
          THEN "" \in options.namespaces
          ELSE resource.namespace \in options.namespaces
    /\ options.resourceTypes # {} =>
          LET resourceType == ToLower(resource.kind)
              resourceTypePlural == getResourceTypePlural(resourceType)
          IN  \/ resourceType \in options.resourceTypes
              \/ resourceTypePlural \in options.resourceTypes

filterKeeps(resource, options) ==
    /\ options.namespaces # {} =>
          IF resource.namespace = ""
          THEN "" \in options.namespaces \/ "cluster" \in options.namespaces
          ELSE resource.namespace \in options.namespaces
    /\ options.resourceTypes # {} =>
          LET resourceType == ToLower(resource.kind)
              resourceTypePlural == getResourceTypePlural(resourceType)
          IN  \/ resourceType \in options.resourceTypes
              \/ resourceTypePlural \in options.resourceTypes

filterResources(resources, options) ==
    LET Keep(r) == filterKeeps(r, options)
    IN  SelectSeq(resources, Keep)

(***************************************************************************)
(* The target cluster and Client.ApplyResource / Client.applyResource.     *)
(* The content of a record parses to an object with the kind, namespace    *)
(* and name of the record (convertToResourceWithContent writes both from   *)
(* the same object), so an object is addressed by the record's key.  Create*)
(* fails with "already exists" when the key is present; any call of the    *)
(* Resource API may also fail for another reason (apiFail).                *)
(***************************************************************************)
Absent == "<absent>"

KeyOf(r) == <<r.kind, r.namespace, r.name>>

applyKinds == {"Namespace", "Service", "Deployment", "ConfigMap", "Secret"}

\* switch kind: the five kinds with a case are created and, when Create
\* answers "already exists", updated; any other kind is logged and left out.
applyResource(rec, tgt, apiFail) ==
    IF rec.kind \notin applyKinds
    THEN [err |-> "nil", target |-> tgt, calls |-> <<>>]
    ELSE IF apiFail = "create"
    THEN [err |-> "other", target |-> tgt, calls |-> <<"create">>]
    ELSE IF tgt[KeyOf(rec)] # Absent
    THEN IF apiFail = "update"
         THEN [err |-> "other", target |-> tgt, calls |-> <<"create", "update">>]
         ELSE [err |-> "nil",
               target |-> [tgt EXCEPT ![KeyOf(rec)] = rec.content],
               calls |-> <<"create", "update">>]
    ELSE [err |-> "nil",
          target |-> [tgt EXCEPT ![KeyOf(rec)] = rec.content],
          calls |-> <<"create">>]

ApplyResource(rec, dryRun, tgt, apiFail) ==
    IF dryRun
    THEN [err |-> "nil", target |-> tgt, calls |-> <<>>]
    ELSE applyResource(rec, tgt, apiFail)

\* Manager.parseResourceObject: content that is no YAML document with an
\* apiVersion and a kind is an error.
parseFails(content) == content = "bad"

(***************************************************************************)
(* One pass of the replay loop of RestoreBackup (restore.go:95-143) over   *)
(* one record: what is added to the result, the new target, and the        *)
(* history entry.                                                          *)
(***************************************************************************)
\* The guard of restore.go:116 without its dry-run test, the flag passed on as false.
applyOneNoDryRunGuard(rec, options, tgt, apiFail) ==
    IF options.hasClient \/ options.dryRun
    THEN ApplyResource(rec, FALSE, tgt, apiFail)
    ELSE [err |-> "nil", target |-> tgt, calls |-> <<>>]

\* restore.go:116-117: the client is called only outside a dry run and only
\* when the manager has one.
applyOne(rec, options, tgt, apiFail) ==
    IF ~options.dryRun /\ options.hasClient
    THEN ApplyResource(rec, options.dryRun, tgt, apiFail)
    ELSE [err |-> "nil", target |-> tgt, calls |-> <<>>]

\* How the loop body ends for a record: "parse_error" and "apply_error" append
\* to Errors and continue, "skipped" counts SkippedResources and continues,
\* "processed" counts ProcessedResources.
\* An apply error that ends the loop body without being recorded.
loopOutcomeDropsError(rec, options, applied) ==
    IF parseFails(rec.content) THEN "parse_error"
    ELSE IF applied.err # "nil" THEN "skipped"
    ELSE "processed"

loopOutcome(rec, options, applied) ==
    IF parseFails(rec.content) THEN "parse_error"
    ELSE IF applied.err # "nil"
    THEN IF ~options.overwriteExisting /\ applied.err = "already exists"
         THEN "skipped"
         ELSE "apply_error"
    ELSE "processed"

\* The loop going on to the next record without the wait
afterApplyNoWait(outcome, options) == "loop"

\* restore.go:138: a record counted as processed is waited for when the
\* options ask for it; the loop sits in the wait until it returns.
afterApply(outcome, options) ==
    IF outcome = "processed" /\ options.wait /\ ~options.dryRun /\ options.hasClient
    THEN "wait"
    ELSE "loop"

ErrorEntry(what, rec) == [what |-> what, kind |-> rec.kind, name |-> rec.name]

RestoreKeys ==
    { <<"Namespace", "", "a">>, <<"Secret", "a", "s">>,
      <<"Deployment", "a", "d">>, <<"ServiceAccount", "a", "s">> }

\* Every key with content that parses; two of them also with content that does not.
RestoreRecords ==
    { [kind |-> k[1], namespace |-> k[2], name |-> k[3], content |-> "v1"] :
        k \in RestoreKeys }
    \cup
    { [kind |-> k[1], namespace |-> k[2], name |-> k[3], content |-> "bad"] :
        k \in { <<"Secret", "a", "s">>, <<"Deployment", "a", "d">> } }

DistinctKeys(s) == \A i, j \in 1..Len(s) : i # j => KeyOf(s[i]) # KeyOf(s[j])

RestoreOptions ==
    { o \in [dryRun : BOOLEAN, overwriteExisting : BOOLEAN, hasClient : BOOLEAN,
             wait : BOOLEAN,
             namespaces : {{}, {"a"}}, resourceTypes : {{}, {"secrets", "namespace"}}] :
        \* runRestore builds a client unless --dry-run is given
        /\ o.hasClient = ~o.dryRun
        /\ o.dryRun => ~o.overwriteExisting
        /\ o.namespaces = {} \/ o.resourceTypes = {}
        /\ o.wait => (~o.dryRun /\ o.namespaces = {} /\ o.resourceTypes = {}) }

EmptyResult ==
    [processed |-> 0, skipped |-> 0, namespaces |-> {}, resourceTypes |-> {},
     errors |-> <<>>]

\* A result that starts without the filtered-out records
initialSkippedNone(resources, filteredResources) == 0

\* restore.go:83: the records the filter left out are skipped
initialSkipped(resources, filteredResources) ==
    Len(resources) - Len(filteredResources)

RestoreIdle ==
    /\ rPc = "idle"
    /\ rOpts = [dryRun |-> FALSE, overwriteExisting |-> FALSE, hasClient |-> FALSE,
                wait |-> FALSE, namespaces |-> {}, resourceTypes |-> {}]
    /\ rLoaded = <<>>
    /\ rSorted = <<>>
    /\ rIdx = 0
    /\ rResult = EmptyResult
    /\ rRet = [called |-> FALSE, resultNil |-> TRUE, err |-> "nil"]
    /\ rCancelled = FALSE
    /\ rRun = 0
    /\ rFails = 0
    /\ rLog = <<>>
    /\ rProgress = <<>>
    /\ target = [k \in RestoreKeys |-> Absent]

RestoreStart ==
    /\ rPc = "load"
    /\ rOpts \in RestoreOptions
    /\ rLoaded \in { s \in SeqsUpTo(RestoreRecords, MaxRestoreRecs) : DistinctKeys(s) }
    /\ rSorted = <<>>
    /\ rIdx = 0
    /\ rResult = EmptyResult
    /\ rRet = [called |-> FALSE, resultNil |-> TRUE, err |-> "nil"]
    /\ rCancelled = FALSE
    /\ rRun = 1
    /\ rFails = 0
    /\ rLog = <<>>
    /\ rProgress = <<>>
    /\ target \in [RestoreKeys -> {Absent, "v0"}]

\* restore.go:50-54: LoadBackup fails and RestoreBackup returns (nil, err).
RestoreLoadFails ==
    /\ rPc = "load"
    /\ rPc' = "done"
    /\ rRet' = [called |-> TRUE, resultNil |-> TRUE, err |-> "load"]
    /\ UNCHANGED <<rOpts, rLoaded, rSorted, rIdx, rResult, rCancelled, rRun,
                   rFails, rLog, target, rProgress>>
    /\ RestoreFrame

\* restore.go:50-92: load, filter, the early return on an empty selection,
\* sort, and the initial result.
RestoreLoad ==
    /\ rPc = "load"
    \* LoadBackup tests the context after each record file it has read
    /\ rCancelled => Len(rLoaded) = 0
    /\ LET filtered == filterResources(rLoaded, rOpts)
       IN  IF Len(filtered) = 0
           THEN /\ rPc' = "done"
                /\ rResult' = [EmptyResult EXCEPT !.skipped = Len(rLoaded)]
                /\ rRet' = [called |-> TRUE, resultNil |-> FALSE, err |-> "nil"]
                /\ UNCHANGED <<rSorted, rIdx>>
           ELSE /\ rPc' = "loop"
                /\ rSorted' = sortResourcesByDependency(filtered)
                /\ rIdx' = 1
                /\ rResult' = [EmptyResult EXCEPT
                                  !.skipped = initialSkipped(rLoaded, filtered)]
                /\ UNCHANGED rRet
    /\ UNCHANGED <<rOpts, rLoaded, rCancelled, rRun, rFails, rLog, target, rProgress>>
    /\ RestoreFrame

\* The context is cancelled by the caller.
RestoreCancel ==
    /\ rPc \in {"load", "loop", "wait"}
    /\ ~rCancelled
    /\ rCancelled' = TRUE
    /\ UNCHANGED <<rPc, rOpts, rLoaded, rSorted, rIdx, rResult, rRet, rRun,
                   rFails, rLog, target, rProgress>>
    /\ RestoreFrame

\* restore.go:96-98: the loop sees the cancelled context and returns.
RestoreSeesCancel ==
    /\ rPc = "loop"
    /\ rIdx <= Len(rSorted)
    /\ rCancelled
    /\ rPc' = "done"
    /\ rRet' = [called |-> TRUE, resultNil |-> FALSE, err |-> "context canceled"]
    /\ UNCHANGED <<rOpts, rLoaded, rSorted, rIdx, rResult, rCancelled, rRun,
                   rFails, rLog, target, rProgress>>
    /\ RestoreFrame

\* restore.go:100-137: one record of the ordered sequence, up to the wait
\* that follows a record counted as processed.
RestoreStep ==
    /\ rPc = "loop"
    /\ rIdx <= Len(rSorted)
    /\ ~rCancelled
    /\ \E apiFail \in {"none", "create", "update"} :
          LET rec == rSorted[rIdx]
              parsed == ~parseFails(rec.content)
              applied == IF parsed
                         THEN applyOne(rec, rOpts, target, apiFail)
                         ELSE [err |-> "nil", target |-> target, calls |-> <<>>]
              outcome == loopOutcome(rec, rOpts, applied)
              failed == applied.err = "other"
          IN  /\ failed => rFails < MaxApiFails
              /\ apiFail # "none" => failed
              /\ rFails' = IF failed THEN rFails + 1 ELSE rFails
              /\ target' = applied.target
              /\ rResult' =
                    CASE outcome = "parse_error" ->
                           [rResult EXCEPT
                              !.errors = Append(@, ErrorEntry("parse", rec))]
                      [] outcome = "apply_error" ->
                           [rResult EXCEPT
                              !.errors = Append(@, ErrorEntry("apply", rec))]
                      [] outcome = "skipped" ->
                           [rResult EXCEPT !.skipped = @ + 1]
                      [] outcome = "processed" ->
                           [rResult EXCEPT
                              !.processed = @ + 1,
                              !.namespaces = @ \cup {rec.namespace},
                              !.resourceTypes = @ \cup {ToLower(rec.kind)}]
              /\ rLog' = Append(rLog,
                    [run |-> rRun, pos |-> rIdx, rec |-> rec, outcome |-> outcome,
                     calls |-> applied.calls, err |-> applied.err,
                     before |-> target[KeyOf(rec)],
                     after |-> applied.target[KeyOf(rec)],
                     wait |-> "none"])
              /\ rPc' = afterApply(outcome, rOpts)
    /\ rIdx' = rIdx + 1
    \* restore.go:100-104: progress.Completed = i, counted from zero
    /\ rProgress' = Append(rProgress, rIdx - 1)
    /\ UNCHANGED <<rOpts, rLoaded, rSorted, rRet, rCancelled, rRun>>
    /\ RestoreFrame

\* restore.go:138-142 and waitForResourceReady: the timer fires, or ctx.Done()
\* is received and the context error is logged as a warning; either way the
\* loop goes on to its next iteration.
RestoreWait ==
    /\ rPc = "wait"
    /\ \E seen \in {"timer", "cancelled"} :
          /\ seen = "cancelled" => rCancelled
          /\ rLog' = [rLog EXCEPT ![Len(rLog)].wait = seen]
    /\ rPc' = "loop"
    /\ UNCHANGED <<rOpts, rLoaded, rSorted, rIdx, rResult, rRet, rCancelled, rRun,
                   rFails, target, rProgress>>
    /\ RestoreFrame

\* restore.go:145-163: the loop is over; RestoreBackup returns (result, nil).
RestoreFinish ==
    /\ rPc = "loop"
    /\ rIdx > Len(rSorted)
    /\ rPc' = "done"
    /\ rRet' = [called |-> TRUE, resultNil |-> FALSE, err |-> "nil"]
    \* restore.go:146-150: the final progress update
    /\ rProgress' = Append(rProgress, Len(rSorted))
    /\ UNCHANGED <<rOpts, rLoaded, rSorted, rIdx, rResult, rCancelled, rRun,
                   rFails, rLog, target>>
    /\ RestoreFrame

\* RestoreBackup is called again with the same options on the same snapshot
\* and the target as the last call left it.
RestoreAgain ==
    /\ rPc = "done"
    /\ rRun < MaxRuns
    /\ rRet.err = "nil"
    /\ rPc' = "load"
    /\ rRun' = rRun + 1
    /\ rSorted' = <<>>
    /\ rIdx' = 0
    /\ rResult' = EmptyResult
    /\ rRet' = [called |-> FALSE, resultNil |-> TRUE, err |-> "nil"]
    /\ rCancelled' = FALSE
    /\ rProgress' = <<>>
    /\ UNCHANGED <<rOpts, rLoaded, rFails, rLog, target>>
    /\ RestoreFrame

RestoreNext ==
    \/ RestoreLoadFails
    \/ RestoreLoad
    \/ RestoreCancel
    \/ RestoreSeesCancel
    \/ RestoreStep
    \/ RestoreWait
    \/ RestoreFinish
    \/ RestoreAgain

(***************************************************************************)
(* Claims about the sequencer.                                             *)
(***************************************************************************)
IsPermutationOf(s, t) ==
    /\ Len(s) = Len(t)
    /\ \A r \in SortRecords :
          Cardinality({i \in 1..Len(s) : s[i] = r})
              = Cardinality({i \in 1..Len(t) : t[i] = r})

SortKeyLeq(a, b) ==
    LET ta == GetResourceOrder(a.kind)
        tb == GetResourceOrder(b.kind)
    IN  \/ ta < tb
        \/ /\ ta = tb
           /\ StrRank(a.namespace) < StrRank(b.namespace)
        \/ /\ ta = tb
           /\ a.namespace = b.namespace
           /\ StrRank(a.name) <= StrRank(b.name)

KindsOf(s) == [i \in 1..Len(s) |-> s[i].kind]

\* C4: the output of sortResourcesByDependency is a permutation of its input in
\* which every adjacent pair is in (tier, namespace, name) order, the tier being
\* the index in ResourceOrder (Namespace 6, Secret 7, ConfigMap 8, Service 14,
\* Deployment 16) or len(ResourceOrder) for a kind that is not listed; Service,
\* Namespace, Secret of namespace default come out as Namespace, Secret, Service.
C4_SortedPermutation ==
    sPc \in {"first", "sorted"} =>
        /\ IsPermutationOf(sOut1, sIn1)
        /\ \A i \in 1..(Len(sOut1) - 1) : SortKeyLeq(sOut1[i], sOut1[i + 1])
        /\ \A i \in 1..Len(sOut1) :
              /\ sOut1[i].kind = "Namespace" => GetResourceOrder(sOut1[i].kind) = 6
              /\ sOut1[i].kind = "Secret" => GetResourceOrder(sOut1[i].kind) = 7
              /\ sOut1[i].kind = "Service" => GetResourceOrder(sOut1[i].kind) = 14
              /\ sOut1[i].kind \in {"Widget", "Gadget"} =>
                    GetResourceOrder(sOut1[i].kind) = Len(ResourceOrder)
        /\ GetResourceOrder("ConfigMap") = 8
        /\ GetResourceOrder("Deployment") = 16
        /\ Len(ResourceOrder) = 27
        /\ ( /\ KindsOf(sIn1) = <<"Service", "Namespace", "Secret">>
             /\ \A i \in 1..3 : sIn1[i].namespace = "default" )
           => KindsOf(sOut1) = <<"Namespace", "Secret", "Service">>

C4_Witness ==
    /\ sPc = "sorted"
    /\ KindsOf(sIn1) = <<"Service", "Namespace", "Secret">>
    /\ \A i \in 1..3 : sIn1[i].namespace = "default"
    /\ KindsOf(sOut1) = <<"Namespace", "Secret", "Service">>

\* C9: for any list and any two permutations of it, sortResourcesByDependency
\* returns the same sequence.
C9_PermutationIndependent ==
    sPc = "sorted" => sOut1 = sOut2

(***************************************************************************)
(* Claims about RestoreBackup and the applier.  An entry e of rLog is one  *)
(* pass of the replay loop: e.before and e.after are the target's object   *)
(* under the record's key around the pass, e.calls the Resource API calls  *)
(* it issued, e.err what ApplyResource returned.                           *)
(***************************************************************************)
Applied(e) == e.outcome # "parse_error"

Created(e) ==
    /\ e.calls = <<"create">>
    /\ e.err = "nil"
    /\ e.before = Absent
    /\ e.after = e.rec.content

Updated(e) ==
    /\ e.calls = <<"create", "update">>
    /\ e.err = "nil"
    /\ e.before # Absent
    /\ e.after = e.rec.content

\* The same record handled by a first and by a second RestoreBackup call, the
\* target lacking it before the first, and no Resource API call failing.
AppliedTwice(i, j) ==
    /\ rLog[i].run = 1
    /\ rLog[j].run = 2
    /\ rLog[i].rec = rLog[j].rec
    /\ Applied(rLog[i])
    /\ rLog[i].before = Absent
    /\ rLog[i].err # "other"
    /\ rLog[j].err # "other"

\* C1: outside a dry run and with overwriteExisting false, a record whose key is
\* already in the target leaves the target's object as it was and is counted as
\* skipped; applied twice to a target that lacked it, it is Created, then Skipped.
C1_ExistingSkipped ==
    (~rOpts.dryRun /\ ~rOpts.overwriteExisting) =>
        /\ \A i \in DOMAIN rLog :
              (Applied(rLog[i]) /\ rLog[i].before # Absent /\ rLog[i].err # "other")
                  => (rLog[i].after = rLog[i].before /\ rLog[i].outcome = "skipped")
        /\ \A i, j \in DOMAIN rLog :
              AppliedTwice(i, j)
                  => (Created(rLog[i]) /\ rLog[j].outcome = "skipped"
                      /\ rLog[j].after = rLog[j].before)

\* C2: in a dry run no create, update or apply call is issued and the objects
\* of the target stay as they are, over any number of runs.
C2_DryRunPure ==
    [][rOpts.dryRun =>
          /\ target' = target
          /\ \A i \in DOMAIN rLog' : rLog'[i].calls = <<>>]_vars

C2_Witness ==
    /\ rOpts.dryRun
    /\ rRun = 2
    /\ rPc = "done"
    /\ rRet.err = "nil"
    /\ Len(rLog) = 4
    /\ \E i \in DOMAIN rLog : rLog[i].before = Absent /\ rLog[i].outcome = "processed"
    /\ \E i \in DOMAIN rLog : rLog[i].before = "v0" /\ rLog[i].outcome = "processed"

ConfigKinds == {"Secret", "ConfigMap", "ServiceAccount", "PersistentVolumeClaim"}

WorkloadKinds == {"Deployment", "StatefulSet", "DaemonSet", "Job", "CronJob", "Pod"}

\* The records the current call of RestoreBackup has handled, in the order it
\* handled them.
RunLog ==
    LET InRun(e) == e.run = rRun
    IN  SelectSeq(rLog, InRun)

\* C5: within one run, the records that pass the filter are handled in the
\* order of the sequencer: no Namespace record comes after a record with a
\* namespace, and no Secret, ConfigMap, ServiceAccount or PersistentVolumeClaim
\* comes after a Deployment, StatefulSet, DaemonSet, Job, CronJob or Pod.
C5_DependencyOrder ==
    /\ \A i, j \in DOMAIN RunLog :
          i < j =>
             /\ ~(RunLog[j].rec.kind = "Namespace" /\ RunLog[i].rec.namespace # "")
             /\ ~(RunLog[j].rec.kind \in ConfigKinds
                    /\ RunLog[i].rec.kind \in WorkloadKinds)
    /\ \A i \in DOMAIN RunLog :
          /\ RunLog[i].rec = rSorted[i]
          /\ filterKeeps(RunLog[i].rec, rOpts)

C5_Witness ==
    /\ rPc = "done"
    /\ ~rOpts.dryRun
    /\ Len(rLoaded) = 2
    /\ rLoaded[1].kind = "Deployment"
    /\ rLoaded[2].kind = "Secret"
    /\ Len(RunLog) = 2
    /\ RunLog[1].rec.kind = "Secret"
    /\ RunLog[1].calls # <<>>
    /\ RunLog[2].rec.kind = "Deployment"
    /\ RunLog[2].calls # <<>>

ErrorOf(e) ==
    ErrorEntry(IF e.outcome = "parse_error" THEN "parse" ELSE "apply", e.rec)

RunFailures ==
    LET Failed(e) == e.outcome \in {"parse_error", "apply_error"}
        failures == SelectSeq(RunLog, Failed)
    IN  [i \in 1..Len(failures) |-> ErrorOf(failures[i])]

C8_ExistingOverwritten ==
    (~rOpts.dryRun /\ rOpts.overwriteExisting) =>
        /\ \A i \in DOMAIN rLog :
              (Applied(rLog[i]) /\ rLog[i].before # Absent /\ rLog[i].err # "other")
                  => (rLog[i].after = rLog[i].rec.content
                      /\ rLog[i].outcome = "processed")
        /\ \A i, j \in DOMAIN rLog :
              AppliedTwice(i, j)
                  => (Created(rLog[i]) /\ Updated(rLog[j])
                      /\ rLog[j].after = rLog[i].after)

(***************************************************************************)
(* The local snapshot store (pkg/storage).  The filesystem is a function   *)
(* from paths (sequences of path elements) to entries: a directory, a      *)
(* regular file with bytes, a manifest document or a gzipped tar archive.  *)
(***************************************************************************)
DirEntry == [type |-> "dir", data |-> "", manifest |-> <<>>, entries |-> <<>>]

FileEntry(content) ==
    [type |-> "file", data |-> content, manifest |-> <<>>, entries |-> <<>>]

ManifestEntry(doc) ==
    [type |-> "file", data |-> "", manifest |-> <<doc>>, entries |-> <<>>]

ArchiveEntry(tarEntries) ==
    [type |-> "archive", data |-> "", manifest |-> <<>>, entries |-> tarEntries]

Last(p) == p[Len(p)]

Dir(p) == SubSeq(p, 1, Len(p) - 1)

IsPrefix(p, q) == Len(p) <= Len(q) /\ SubSeq(q, 1, Len(p)) = p

Rel(dir, p) == SubSeq(p, Len(dir) + 1, Len(p))

\* os.MkdirAll: every missing ancestor becomes a directory; it fails at the
\* first ancestor that exists and is not a directory.
MkdirAll(f, p) ==
    LET ancestors == { SubSeq(p, 1, k) : k \in 1..Len(p) }
        blocked == { q \in ancestors : q \in DOMAIN f /\ f[q].type # "dir" }
        made == { q \in ancestors : \A b \in blocked : Len(q) < Len(b) }
    IN  [err |-> blocked # {},
         fs |-> [q \in DOMAIN f \cup made |->
                    IF q \in DOMAIN f THEN f[q] ELSE DirEntry]]

\* os.WriteFile and os.Create: the parent must be a directory and the path
\* must not be one; an existing file is replaced.
WriteFile(f, p, entry) ==
    IF \/ Dir(p) \notin DOMAIN f
       \/ f[Dir(p)].type # "dir"
       \/ (p \in DOMAIN f /\ f[p].type = "dir")
    THEN [err |-> TRUE, fs |-> f]
    ELSE [err |-> FALSE,
          fs |-> [q \in DOMAIN f \cup {p} |-> IF q = p THEN entry ELSE f[q]]]

\* os.ReadFile
ReadFile(f, p) ==
    IF p \in DOMAIN f /\ f[p].type # "dir"
    THEN [err |-> FALSE, entry |-> f[p]]
    ELSE [err |-> TRUE, entry |-> DirEntry]

\* os.RemoveAll
RemoveAll(f, p) == [q \in { x \in DOMAIN f : ~IsPrefix(p, x) } |-> f[q]]

\* filepath.Walk visits a tree in lexical order, a directory before its
\* children.
PathLess(p, q) ==
    \/ Len(p) < Len(q) /\ SubSeq(q, 1, Len(p)) = p
    \/ \E k \in 1..Len(p) :
          /\ k <= Len(q)
          /\ SubSeq(p, 1, k - 1) = SubSeq(q, 1, k - 1)
          /\ StrLess(p[k], q[k])

RECURSIVE SortPaths(_)
SortPaths(S) ==
    IF S = {} THEN <<>>
    ELSE LET first == CHOOSE p \in S : \A q \in S \ {p} : PathLess(p, q)
         IN  <<first>> \o SortPaths(S \ {first})

Walk(f, dir) ==
    SortPaths({ Rel(dir, p) : p \in { x \in DOMAIN f : IsPrefix(dir, x) /\ x # dir } })

\* strings.HasSuffix on the names of the model
NameStems == {"", "a", "a.tar.gz", "b", "b.tar.gz"}

HasSuffix(s, suffix) == \E stem \in NameStems : stem \o suffix = s

(***************************************************************************)
(* The manifest document: yaml.Marshal and yaml.Unmarshal of               *)
(* types.BackupManifest.  A timestamp loses its monotonic reading; a nil   *)
(* or empty label map is left out and comes back as nil.                   *)
(***************************************************************************)
MarshalInfo(info) ==
    [kind |-> info.kind, namespace |-> info.namespace, name |-> info.name,
     relativePath |-> info.relativePath,
     labels |-> IF info.labels \in {"nil", "empty"} THEN <<>> ELSE <<info.labels>>]

UnmarshalInfo(doc) ==
    [kind |-> doc.kind, namespace |-> doc.namespace, name |-> doc.name,
     relativePath |-> doc.relativePath,
     labels |-> IF doc.labels = <<>> THEN "nil" ELSE doc.labels[1]]

MarshalMetadata(m) ==
    [name |-> m.name, timestamp |-> m.timestamp.wall, version |-> m.version,
     kubernetesVersion |-> m.kubernetesVersion, namespaces |-> m.namespaces,
     resourceTypes |-> m.resourceTypes,
     totalResources |-> m.totalResources, backupPath |-> m.backupPath,
     size |-> m.size, compress |-> m.compress]

UnmarshalMetadata(doc) ==
    [name |-> doc.name, timestamp |-> [wall |-> doc.timestamp, mono |-> FALSE],
     version |-> doc.version, kubernetesVersion |-> doc.kubernetesVersion,
     namespaces |-> doc.namespaces, resourceTypes |-> doc.resourceTypes,
     totalResources |-> doc.totalResources, backupPath |-> doc.backupPath,
     size |-> doc.size, compress |-> doc.compress]

Marshal(manifest) ==
    [metadata |-> MarshalMetadata(manifest.metadata),
     resources |-> [i \in 1..Len(manifest.resources) |->
                       MarshalInfo(manifest.resources[i])]]

Unmarshal(doc) ==
    [metadata |-> UnmarshalMetadata(doc.metadata),
     resources |-> [i \in 1..Len(doc.resources) |->
                       UnmarshalInfo(doc.resources[i])]]

(***************************************************************************)
(* LocalStorage.SaveBackup and LocalStorage.compressBackup.                *)
(***************************************************************************)
ManifestFileName == "manifest.yaml"

relativePathOfKeepCase(info) ==
    << IF info.namespace # "" THEN info.namespace ELSE "cluster",
       info.kind \o "-" \o info.name \o ".yaml" >>

relativePathOf(info) ==
    << IF info.namespace # "" THEN info.namespace ELSE "cluster",
       ToLower(info.kind) \o "-" \o info.name \o ".yaml" >>

RECURSIVE totalSizeOf(_)
totalSizeOf(resources) ==
    IF resources = <<>> THEN 0
    ELSE Len(Head(resources).content) + totalSizeOf(Tail(resources))

\* The first pass: the directory of each record is made, then ctx is looked at.
RECURSIVE makeDirs(_, _, _, _, _)
makeDirs(f, backupDir, resources, i, cancelled) ==
    IF i > Len(resources) THEN [err |-> "nil", fs |-> f]
    ELSE LET m == MkdirAll(f, Dir(backupDir \o relativePathOf(resources[i].info)))
         IN  IF m.err THEN [err |-> "mkdir", fs |-> m.fs]
             ELSE IF cancelled THEN [err |-> "context canceled", fs |-> m.fs]
             ELSE makeDirs(m.fs, backupDir, resources, i + 1, cancelled)

\* The second pass: every record's content is written to its path.
RECURSIVE writeResources(_, _, _, _)
writeResources(f, backupDir, resources, i) ==
    IF i > Len(resources) THEN [err |-> "nil", fs |-> f]
    ELSE LET w == WriteFile(f, backupDir \o relativePathOf(resources[i].info),
                            FileEntry(resources[i].content))
         IN  IF w.err THEN [err |-> "write", fs |-> w.fs]
             ELSE writeResources(w.fs, backupDir, resources, i + 1)

TarEntry(f, dir, rel) ==
    [name |-> rel,
     typeflag |-> IF f[dir \o rel].type = "dir" THEN "dir" ELSE "reg",
     data |-> f[dir \o rel].data,
     manifest |-> f[dir \o rel].manifest]

\* An archive file whose streams were not finished: not a readable archive
TruncatedEntry ==
    [type |-> "truncated", data |-> "", manifest |-> <<>>, entries |-> <<>>]

\* ioFail names the step of the archive creation that fails, if one does:
\* "create" (os.Create), "write" (a header or a file body, here of the first
\* entry) or "close" (the deferred Close of the tar and gzip writers and of
\* the file, whose errors are dropped).
compressBackup(f, backupDir, ioFail) ==
    LET archiveName == Dir(backupDir) \o <<Last(backupDir) \o ".tar.gz">>
        walked == Walk(f, backupDir)
        written == IF ioFail = "write" THEN <<>>
                   ELSE [i \in 1..Len(walked) |-> TarEntry(f, backupDir, walked[i])]
        created == WriteFile(f, archiveName,
                       IF ioFail = "close" THEN TruncatedEntry
                       ELSE ArchiveEntry(written))
    IN  IF created.err \/ ioFail = "create" THEN [err |-> "compress", fs |-> f]
        ELSE IF ioFail = "write" THEN [err |-> "compress", fs |-> created.fs]
        ELSE [err |-> "nil", fs |-> RemoveAll(created.fs, backupDir)]

\* The manifest SaveBackup builds: the metadata with the directory as its
\* path and the total size, and every record's info with its relativePath
manifestOf(backupDir, metadata, resources) ==
    [metadata |-> [metadata EXCEPT !.backupPath = backupDir,
                                   !.size = totalSizeOf(resources)],
     resources |-> [i \in 1..Len(resources) |->
                      [resources[i].info EXCEPT
                          !.relativePath = relativePathOf(resources[i].info)]]]

SaveBackup(f, basePath, metadata, resources, cancelled, ioFail) ==
    LET backupDir == basePath \o <<metadata.name>>
        made == MkdirAll(f, backupDir)
        withPath == [metadata EXCEPT !.backupPath = backupDir]
        dirs == makeDirs(made.fs, backupDir, resources, 1, cancelled)
        files == writeResources(dirs.fs, backupDir, resources, 1)
        manifest == manifestOf(backupDir, metadata, resources)
        written == WriteFile(files.fs, backupDir \o <<ManifestFileName>>,
                             ManifestEntry(Marshal(manifest)))
        packed == compressBackup(written.fs, backupDir, ioFail)
    IN  IF made.err
        THEN [err |-> "mkdir", fs |-> made.fs, metadata |-> metadata]
        ELSE IF dirs.err # "nil"
        THEN [err |-> dirs.err, fs |-> dirs.fs, metadata |-> withPath]
        ELSE IF files.err # "nil"
        THEN [err |-> files.err, fs |-> files.fs, metadata |-> withPath]
        ELSE IF written.err
        THEN [err |-> "write", fs |-> written.fs, metadata |-> withPath]
        ELSE IF metadata.compress
        THEN [err |-> packed.err, fs |-> packed.fs, metadata |-> withPath]
        ELSE [err |-> "nil", fs |-> written.fs, metadata |-> withPath]

(***************************************************************************)
(* LocalStorage.extractBackup and LocalStorage.LoadBackup.                 *)
(***************************************************************************)
TempDir == <<"tmp", "k8s-backup-extract">>

\* Each entry's parent directory is made; only regular files are written.
\* An entry whose header or body cannot be read ends the extraction.
RECURSIVE extractEntries(_, _, _, _)
extractEntries(f, tempDir, tarEntries, i) ==
    IF i > Len(tarEntries) THEN [err |-> "nil", fs |-> f]
    ELSE IF tarEntries[i].typeflag = "damaged"
    THEN [err |-> "extract", fs |-> RemoveAll(f, tempDir)]
    ELSE LET extractPath == tempDir \o tarEntries[i].name
             m == MkdirAll(f, Dir(extractPath))
             w == WriteFile(m.fs, extractPath,
                      [type |-> "file", data |-> tarEntries[i].data,
                       manifest |-> tarEntries[i].manifest, entries |-> <<>>])
         IN  IF m.err THEN [err |-> "extract", fs |-> RemoveAll(m.fs, tempDir)]
             ELSE IF tarEntries[i].typeflag # "reg"
             THEN extractEntries(m.fs, tempDir, tarEntries, i + 1)
             ELSE IF w.err THEN [err |-> "extract", fs |-> RemoveAll(w.fs, tempDir)]
             ELSE extractEntries(w.fs, tempDir, tarEntries, i + 1)

extractBackup(f, archivePath) ==
    LET temp == MkdirAll(f, TempDir)
    IN  IF archivePath \notin DOMAIN f
        THEN [err |-> "open", fs |-> RemoveAll(temp.fs, TempDir)]
        ELSE IF f[archivePath].type # "archive"
        THEN [err |-> "gzip", fs |-> RemoveAll(temp.fs, TempDir)]
        ELSE extractEntries(temp.fs, TempDir, f[archivePath].entries, 1)

\* The loop over manifest.Resources: a file that cannot be read ends the
\* load; ctx is looked at after each file that was read.
RECURSIVE readResources(_, _, _, _, _)
readResources(f, actualPath, infos, i, cancelled) ==
    IF i > Len(infos) THEN [err |-> "nil", resources |-> <<>>]
    ELSE LET r == ReadFile(f, actualPath \o infos[i].relativePath)
             rest == readResources(f, actualPath, infos, i + 1, cancelled)
         IN  IF r.err THEN [err |-> "read", resources |-> <<>>]
             ELSE IF cancelled THEN [err |-> "context canceled", resources |-> <<>>]
             ELSE IF rest.err # "nil" THEN rest
             ELSE [err |-> "nil",
                   resources |-> <<[info |-> infos[i], content |-> r.entry.data]>>
                                    \o rest.resources]

LoadBackup(f, backupPath, cancelled) ==
    LET isCompressed == HasSuffix(Last(backupPath), ".tar.gz")
        extracted == extractBackup(f, backupPath)
        actualPath == IF isCompressed THEN TempDir ELSE backupPath
        g == IF isCompressed THEN extracted.fs ELSE f
        cleaned == IF isCompressed THEN RemoveAll(g, TempDir) ELSE g
        read == ReadFile(g, actualPath \o <<ManifestFileName>>)
        manifest == Unmarshal(read.entry.manifest[1])
        loaded == readResources(g, actualPath, manifest.resources, 1, cancelled)
        failed(e, after) == [err |-> e, manifest |-> <<>>, resources |-> <<>>,
                             fs |-> after]
    IN  IF isCompressed /\ extracted.err # "nil" THEN failed("extract", extracted.fs)
        ELSE IF read.err THEN failed("read manifest", cleaned)
        ELSE IF read.entry.manifest = <<>> THEN failed("unmarshal", cleaned)
        ELSE IF loaded.err # "nil" THEN failed(loaded.err, cleaned)
        ELSE [err |-> "nil", manifest |-> <<manifest>>,
              resources |-> loaded.resources, fs |-> cleaned]

(***************************************************************************)
(* The store as a state machine: one metadata and one record list are      *)
(* saved and loaded, then saved and loaded again with the other value of   *)
(* Compress.                                                               *)
(***************************************************************************)
BasePath == <<"backups">>

StoreKeys ==
    { <<"Secret", "cluster", "s">>, <<"Secret", "", "s">>,
      <<"ConfigMap", "a", "s">> }

StoreRecords ==
    { [info |-> [kind |-> k[1], namespace |-> k[2], name |-> k[3],
                 relativePath |-> <<>>, labels |-> l],
       content |-> c] :
        k \in StoreKeys, l \in {"nil", "empty", "app=x"}, c \in {"v1", "w"} }

\* The three records of the scenario of the specification
ScenarioRecords ==
    LET R(k, ns, n) == [info |-> [kind |-> k, namespace |-> ns, name |-> n,
                                  relativePath |-> <<>>, labels |-> "nil"],
                        content |-> "v1"]
    IN  <<R("Namespace", "", "prod"), R("Secret", "prod", "db"),
          R("Deployment", "prod", "api")>>

StoreMetadata(resources) ==
    [name : {"b", "b.tar.gz"},
     timestamp : {[wall |-> "t0", mono |-> TRUE]},
     version : {"v1"},
     kubernetesVersion : {"v1.28"},
     namespaces : {<<"a">>},
     resourceTypes : {<<"secrets">>},
     totalResources : {Len(resources)},
     backupPath : {<<>>},
     size : {0, totalSizeOf(resources)},
     compress : BOOLEAN]

InfoKey(resource) ==
    <<resource.info.kind, resource.info.namespace, resource.info.name>>

\* The metadata handed to SaveBackup in a round, and the path handed to
\* LoadBackup after it: the directory, or the archive next to it.
MetaOf(round) ==
    IF round = 1 THEN stMeta ELSE [stMeta EXCEPT !.compress = ~stMeta.compress]

SavedPath(metadata) ==
    IF metadata.compress
    THEN BasePath \o <<metadata.name \o ".tar.gz">>
    ELSE BasePath \o <<metadata.name>>

StoreStart ==
    /\ stPc = "input"
    /\ stRecs \in SeqsUpTo(StoreRecords, MaxStoreRecs) \cup {ScenarioRecords}
    /\ stMeta \in StoreMetadata(stRecs)
    /\ stRound = 1
    /\ stCancelled = FALSE
    /\ fs = [p \in {<<"tmp">>} |-> DirEntry]
    /\ stSaves = <<>>
    /\ stLoads = <<>>

StoreIdle ==
    /\ stPc = "idle"
    /\ stRecs = <<>>
    /\ stMeta = [name |-> "", timestamp |-> [wall |-> "t0", mono |-> FALSE],
                 version |-> "", kubernetesVersion |-> "", namespaces |-> <<>>,
                 resourceTypes |-> <<>>,
                 totalResources |-> 0, backupPath |-> <<>>, size |-> 0,
                 compress |-> FALSE]
    /\ stRound = 1
    /\ stCancelled = FALSE
    /\ fs = [p \in {<<"tmp">>} |-> DirEntry]
    /\ stSaves = <<>>
    /\ stLoads = <<>>

StoreCancel ==
    /\ stPc \in {"input", "saved"}
    /\ ~stCancelled
    /\ stCancelled' = TRUE
    /\ UNCHANGED <<stPc, stMeta, stRecs, stRound, fs, stSaves, stLoads>>
    /\ StoreFrame

StoreSave ==
    /\ stPc = "input"
    /\ \E ioFail \in {"none", "create", "write", "close"} :
          LET saved == SaveBackup(fs, BasePath, MetaOf(stRound), stRecs,
                                  stCancelled, ioFail)
          IN  \* only the archive creation is made to fail, and only when reached
              /\ ioFail # "none" =>
                    (MetaOf(stRound).compress /\ (stCancelled => stRecs = <<>>))
              /\ fs' = saved.fs
              /\ stSaves' = Append(stSaves, [err |-> saved.err,
                                             metadata |-> saved.metadata,
                                             cancelled |-> stCancelled,
                                             ioFail |-> ioFail])
    /\ stPc' = "saved"
    /\ UNCHANGED <<stMeta, stRecs, stRound, stCancelled, stLoads>>
    /\ StoreFrame

StoreLoad ==
    /\ stPc = "saved"
    /\ LET loaded == LoadBackup(fs, SavedPath(MetaOf(stRound)), stCancelled)
       IN  /\ fs' = loaded.fs
           /\ stLoads' = Append(stLoads, [err |-> loaded.err,
                                          manifest |-> loaded.manifest,
                                          resources |-> loaded.resources,
                                          cancelled |-> stCancelled])
    /\ stPc' = "loaded"
    /\ UNCHANGED <<stMeta, stRecs, stRound, stCancelled, stSaves>>
    /\ StoreFrame

StoreAgain ==
    /\ stPc = "loaded"
    /\ stRound = 1
    /\ stRound' = 2
    /\ stPc' = "input"
    /\ UNCHANGED <<stMeta, stRecs, stCancelled, fs, stSaves, stLoads>>
    /\ StoreFrame

StoreNext == StoreCancel \/ StoreSave \/ StoreLoad \/ StoreAgain

(***************************************************************************)
(* Properties of the store.                                                *)
(***************************************************************************)
DistinctIdentityKeys(resources) ==
    \A i, j \in 1..Len(resources) : i # j => InfoKey(resources[i]) # InfoKey(resources[j])

SameRecords(loaded, resources) ==
    /\ Len(loaded) = Len(resources)
    /\ \A i \in 1..Len(resources) :
          /\ InfoKey(loaded[i]) = InfoKey(resources[i])
          /\ loaded[i].content = resources[i].content

SameMetadata(m, n) ==
    /\ m.name = n.name
    /\ m.version = n.version
    /\ m.kubernetesVersion = n.kubernetesVersion
    /\ m.namespaces = n.namespaces
    /\ m.resourceTypes = n.resourceTypes
    /\ m.totalResources = n.totalResources
    /\ m.size = n.size
    /\ m.compress = n.compress

Undisturbed(round) ==
    /\ round \in DOMAIN stLoads
    /\ ~stSaves[round].cancelled
    /\ stSaves[round].ioFail = "none"
    /\ ~stLoads[round].cancelled

\* C3: saving and then loading records with pairwise distinct identity keys
\* gives back the metadata (apart from timestamp and path) and the records:
\* the same length, order, identity keys and content.
C3_RoundTrip ==
    \A round \in DOMAIN stLoads :
        (Undisturbed(round) /\ DistinctIdentityKeys(stRecs))
            => /\ stSaves[round].err = "nil"
               /\ stLoads[round].err = "nil"
               /\ SameMetadata(stLoads[round].manifest[1].metadata, MetaOf(round))
               /\ SameRecords(stLoads[round].resources, stRecs)

\* C10: for any metadata name and record list, loading what was saved with
\* Compress=true gives the same record list as loading what was saved with
\* Compress=false.
C10_CompressedSameAsPlain ==
    (Undisturbed(1) /\ Undisturbed(2))
        => /\ stLoads[1].err = stLoads[2].err
           /\ stLoads[1].resources = stLoads[2].resources

(***************************************************************************)
(* The collector (pkg/backup).  The source cluster is fixed: what each     *)
(* list call of the Resource API returns when it does not fail.            *)
(***************************************************************************)
SupportedResourceTypes ==
    <<"namespaces", "clusterroles", "clusterrolebindings", "persistentvolumes",
      "deployments", "services", "configmaps", "secrets",
      "persistentvolumeclaims", "serviceaccounts", "roles", "rolebindings",
      "ingresses", "networkpolicies", "horizontalpodautoscalers",
      "poddisruptionbudgets", "statefulsets", "daemonsets", "jobs", "cronjobs",
      "replicasets", "pods">>

IsClusterScoped(resourceType) ==
    resourceType \in {"clusterroles", "clusterrolebindings", "persistentvolumes",
                      "namespaces", "customresourcedefinitions", "storageclasses",
                      "volumesnapshotclasses"}

\* The order in which backupClusterScopedResources looks at the kinds
ClusterScopedOrder ==
    <<"namespaces", "persistentvolumes", "clusterroles", "clusterrolebindings",
      "storageclasses">>

\* The keys of backupFuncs in backupNamespacedResources
backupFuncs ==
    {"deployments", "services", "configmaps", "secrets", "persistentvolumeclaims",
     "serviceaccounts", "roles", "rolebindings", "ingresses", "networkpolicies",
     "statefulsets", "daemonsets", "jobs", "cronjobs", "poddisruptionbudgets"}

KindOfType(resourceType) ==
    CASE resourceType = "namespaces" -> "Namespace"
      [] resourceType = "secrets" -> "Secret"
      [] resourceType = "configmaps" -> "ConfigMap"
      [] OTHER -> resourceType

\* An object as a list call returns it.  A nil map, a nil pointer and a nil
\* slice are <<>>, a value v that is there is <<v>>; a map is a set of
\* <<key, value>> pairs.
Obj(n, t, rv) ==
    [name |-> n, type |-> t, spec |-> "v1", labels |-> <<>>, annotations |-> <<>>,
     resourceVersion |-> rv, uid |-> "u-" \o n, generation |-> 1, selfLink |-> "",
     creationTimestamp |-> "t0", deletionTimestamp |-> <<>>,
     deletionGracePeriodSeconds |-> <<>>, managedFields |-> <<"kubectl">>]

ClusterNamespaces == <<"b", "a">>

\* The Items of a list call that succeeds
ListItems(namespace, resourceType) ==
    CASE resourceType = "namespaces" ->
             [i \in 1..Len(ClusterNamespaces) |-> Obj(ClusterNamespaces[i], "", "7")]
      [] resourceType = "secrets" /\ namespace = "a" ->
             <<Obj("s", "Opaque", "7"),
               Obj("x", "kubernetes.io/service-account-token", "8")>>
      [] resourceType = "secrets" /\ namespace = "b" -> <<Obj("s", "Opaque", "9")>>
      [] resourceType = "configmaps" /\ namespace = "a" -> <<Obj("c", "", "7")>>
      [] OTHER -> <<>>

\* strings.HasPrefix
HasPrefix(s, prefix) ==
    Len(s) >= Len(prefix) /\ SubSeq(s, 1, Len(prefix)) = prefix

\* The annotations cleanObject deletes
RuntimeAnnotation(key) ==
    \/ key = "kubectl.kubernetes.io/last-applied-configuration"
    \/ HasPrefix(key, "deployment.kubernetes.io/")
    \/ HasPrefix(key, "autoscaling.alpha.kubernetes.io/")

\* A cleanObject that leaves the UID in place
cleanObjectKeepsUID(obj) ==
    [obj EXCEPT !.resourceVersion = "", !.generation = 0, !.selfLink = "",
                !.creationTimestamp = "", !.deletionTimestamp = <<>>,
                !.deletionGracePeriodSeconds = <<>>, !.managedFields = <<>>,
                !.annotations = IF @ = <<>> THEN <<>>
                                ELSE <<{ a \in @[1] : ~RuntimeAnnotation(a[1]) }>>]

\* Manager.cleanObject: the fields the cluster sets are emptied and the
\* annotations of an apply and of the controllers are deleted; a nil map of
\* annotations stays nil
cleanObject(obj) ==
    [obj EXCEPT !.resourceVersion = "", !.uid = "", !.generation = 0, !.selfLink = "",
                !.creationTimestamp = "", !.deletionTimestamp = <<>>,
                !.deletionGracePeriodSeconds = <<>>, !.managedFields = <<>>,
                !.annotations = IF @ = <<>> THEN <<>>
                                ELSE <<{ a \in @[1] : ~RuntimeAnnotation(a[1]) }>>]

\* yaml.Marshal of an object: every field of the metadata but the creation
\* timestamp is left out when it is empty (omitempty), a nil map as well as
\* an empty one; the zero creation timestamp is written as null.
MarshalObject(obj) ==
    LET Opt(v, zero) == IF v = zero THEN <<>> ELSE <<v>>
    IN  [name |-> Opt(obj.name, ""), type |-> Opt(obj.type, ""), spec |-> obj.spec,
         labels |-> IF obj.labels \in {<<>>, <<{}>>} THEN <<>> ELSE obj.labels,
         annotations |-> IF obj.annotations \in {<<>>, <<{}>>} THEN <<>>
                         ELSE obj.annotations,
         resourceVersion |-> Opt(obj.resourceVersion, ""),
         uid |-> Opt(obj.uid, ""),
         generation |-> Opt(obj.generation, 0),
         selfLink |-> Opt(obj.selfLink, ""),
         creationTimestamp |-> IF obj.creationTimestamp = "" THEN "null"
                               ELSE obj.creationTimestamp,
         deletionTimestamp |-> obj.deletionTimestamp,
         deletionGracePeriodSeconds |-> obj.deletionGracePeriodSeconds,
         managedFields |-> obj.managedFields]

\* Manager.convertToResourceWithContent: the cleaned object is serialized
convertToResourceWithContent(obj, namespace, kind) ==
    LET cleaned == cleanObject(obj)
    IN  [info |-> [kind |-> kind, namespace |-> namespace, name |-> cleaned.name,
                   relativePath |-> <<>>, labels |-> "nil"],
         content |-> kind \o "/" \o cleaned.name \o "/" \o cleaned.spec
                          \o cleaned.resourceVersion]

\* backupNamespaces, backupSecrets, backupConfigMaps, ...: every item is
\* converted; backupSecrets leaves out the service account tokens.
RECURSIVE convertItems(_, _, _)
convertItems(items, namespace, resourceType) ==
    IF items = <<>> THEN <<>>
    ELSE IF resourceType = "secrets"
            /\ Head(items).type = "kubernetes.io/service-account-token"
    THEN convertItems(Tail(items), namespace, resourceType)
    ELSE <<convertToResourceWithContent(Head(items), namespace,
                                         KindOfType(resourceType))>>
            \o convertItems(Tail(items), namespace, resourceType)

backupFunc(namespace, resourceType) ==
    convertItems(ListItems(namespace, resourceType), namespace, resourceType)

\* The items of a list that the collector hands to the conversion
Converted(items, resourceType) ==
    { i \in 1..Len(items) :
        ~(resourceType = "secrets"
          /\ items[i].type = "kubernetes.io/service-account-token") }

\* A collector whose list call fails, or whose conversion of item bad fails
\* (bad = 0: every conversion succeeds): the loop returns nil and the error
\* at the first failure.
backupFuncOrErr(namespace, resourceType, listFails, bad) ==
    IF listFails \/ bad \in Converted(ListItems(namespace, resourceType), resourceType)
    THEN [resources |-> <<>>, err |-> TRUE]
    ELSE [resources |-> backupFunc(namespace, resourceType), err |-> FALSE]

(***************************************************************************)
(* getNamespacesToBackup and getResourceTypesToBackup.                     *)
(***************************************************************************)
Elems(s) == { s[i] : i \in 1..Len(s) }

KeepAll(s, excluded) == s

RECURSIVE Without(_, _)
Without(s, excluded) ==
    IF s = <<>> THEN <<>>
    ELSE IF Head(s) \in excluded THEN Without(Tail(s), excluded)
    ELSE <<Head(s)>> \o Without(Tail(s), excluded)

RECURSIVE SortStrings(_)
SortStrings(s) ==
    IF s = <<>> THEN <<>>
    ELSE LET i == CHOOSE k \in 1..Len(s) : \A j \in 1..Len(s) : ~StrLess(s[j], s[k])
         IN  <<s[i]>> \o SortStrings(SubSeq(s, 1, i - 1) \o SubSeq(s, i + 1, Len(s)))

getNamespacesToBackup(options) ==
    SortStrings(Without(IF Len(options.namespaces) > 0 THEN options.namespaces
                        ELSE ClusterNamespaces,
                        Elems(options.excludeNamespaces)))

getResourceTypesToBackup(options) ==
    Without(IF Len(options.resourceTypes) > 0 THEN options.resourceTypes
            ELSE SupportedResourceTypes,
            Elems(options.excludeResourceTypes))

\* The list calls a task makes, in order: the cluster task ("") goes through
\* its fixed order, a namespace task through the requested types.
RECURSIVE Select(_, _)
Select(s, keep) ==
    IF s = <<>> THEN <<>>
    ELSE IF Head(s) \in keep THEN <<Head(s)>> \o Select(Tail(s), keep)
    ELSE Select(Tail(s), keep)

callsOf(task, resourceTypes) ==
    IF task = ""
    THEN Select(ClusterScopedOrder, { t \in Elems(resourceTypes) : IsClusterScoped(t) })
    ELSE Select(resourceTypes, { t \in backupFuncs : ~IsClusterScoped(t) })

afterCallNoWarning(task, namespace, resourceType, failed) ==
    IF failed
    THEN [task EXCEPT !.next = @ + 1]
    ELSE [task EXCEPT !.resources = @ \o backupFunc(namespace, resourceType),
                      !.next = @ + 1]

\* What a task holds after one list call
afterCall(task, namespace, resourceType, failed) ==
    IF failed
    THEN [task EXCEPT !.errors = Append(@, [resourceType |-> resourceType,
                                            namespace |-> namespace]),
                      !.next = @ + 1]
    ELSE [task EXCEPT !.resources = @ \o backupFunc(namespace, resourceType),
                      !.next = @ + 1]

(***************************************************************************)
(* Manager.CreateBackup as a state machine: the caller's goroutine, one    *)
(* goroutine per task, and the goroutine that closes the channels.         *)
(***************************************************************************)
\* The include-lists that name an entry twice come without excludes
BackupOptions ==
    { o \in [backupName : {"b"},
             namespaces : {<<>>, <<"b", "a">>, <<"a", "a">>},
             excludeNamespaces : {<<>>, <<"b">>},
             resourceTypes : {<<"configmaps", "secrets">>,
                              <<"secrets", "namespaces", "pods">>,
                              <<"secrets", "secrets">>},
             excludeResourceTypes : {<<>>, <<"secrets">>},
             compress : BOOLEAN] :
        (o.namespaces = <<"a", "a">> \/ o.resourceTypes = <<"secrets", "secrets">>)
            => /\ o.excludeNamespaces = <<>>
               /\ o.excludeResourceTypes = <<>>
               /\ ~o.compress }

NoMetadata == <<>>

NewTask(task) ==
    [pc |-> IF task = "" THEN "run" ELSE "check", next |-> 1,
     resources |-> <<>>, errors |-> <<>>, late |-> 0, dropped |-> {}]

BackupStart ==
    /\ bPc = "start"
    /\ bOpts \in BackupOptions
    /\ bCancelled = FALSE
    /\ bFailed = {}
    /\ bPlan = [namespaces |-> <<>>, resourceTypes |-> <<>>, k8sVersion |-> ""]
    /\ bTasks = <<>>
    /\ resourceChan = <<>>
    /\ errorChan = <<>>
    /\ bClosed = {}
    /\ bNil = {}
    /\ allResources = <<>>
    /\ bErrors = <<>>
    /\ bProgress = <<>>
    /\ bRet = [called |-> FALSE, metadata |-> NoMetadata, err |-> "nil"]

BackupIdle ==
    /\ bPc = "idle"
    /\ bOpts = [backupName |-> "", namespaces |-> <<>>, excludeNamespaces |-> <<>>,
                resourceTypes |-> <<>>, excludeResourceTypes |-> <<>>,
                compress |-> FALSE]
    /\ bCancelled = FALSE
    /\ bFailed = {}
    /\ bPlan = [namespaces |-> <<>>, resourceTypes |-> <<>>, k8sVersion |-> ""]
    /\ bTasks = <<>>
    /\ resourceChan = <<>>
    /\ errorChan = <<>>
    /\ bClosed = {}
    /\ bNil = {}
    /\ allResources = <<>>
    /\ bErrors = <<>>
    /\ bProgress = <<>>
    /\ bRet = [called |-> FALSE, metadata |-> NoMetadata, err |-> "nil"]

\* ctx is cancelled while CreateBackup runs
BackupCancel ==
    /\ bPc \in {"start", "collect"}
    /\ ~bCancelled
    /\ bCancelled' = TRUE
    /\ UNCHANGED <<bPc, bOpts, bFailed, bPlan, bTasks, resourceChan, errorChan,
                   bClosed, bNil, allResources, bErrors, bProgress, bRet, fs>>
    /\ BackupFrame

\* GetServerVersion fails: CreateBackup returns nil and the error
BackupVersionFails ==
    /\ bPc = "start"
    /\ Cardinality(bFailed) < MaxListFails
    /\ bFailed' = bFailed \cup {<<"<api>", "version", 0, 0>>}
    /\ bRet' = [called |-> TRUE, metadata |-> NoMetadata, err |-> "version"]
    /\ bPc' = "done"
    /\ UNCHANGED <<bOpts, bCancelled, bPlan, bTasks, resourceChan, errorChan,
                   bClosed, bNil, allResources, bErrors, bProgress, fs>>
    /\ BackupFrame

\* GetNamespaces fails in getNamespacesToBackup, as it does when ctx is
\* cancelled: CreateBackup returns nil and the error
BackupNamespacesFail ==
    /\ bPc = "start"
    /\ bCancelled \/ Cardinality(bFailed) < MaxListFails
    /\ bFailed' = bFailed \cup {<<"<api>", "namespaces", 0, 0>>}
    /\ bRet' = [called |-> TRUE, metadata |-> NoMetadata, err |-> "namespaces"]
    /\ bPc' = "done"
    /\ UNCHANGED <<bOpts, bCancelled, bPlan, bTasks, resourceChan, errorChan,
                   bClosed, bNil, allResources, bErrors, bProgress, fs>>
    /\ BackupFrame

\* Up to the start of the goroutines: the plan is made, progress is reported
\* once, and the cluster task (task 0, namespace "") and one task per entry
\* of namespacesToBackup are started.
BackupFanOut ==
    /\ bPc = "start"
    /\ ~bCancelled
    /\ LET namespacesToBackup == getNamespacesToBackup(bOpts)
       IN  /\ bPlan' = [namespaces |-> namespacesToBackup,
                        resourceTypes |-> getResourceTypesToBackup(bOpts),
                        k8sVersion |-> "v1.28"]
           /\ bTasks' = [t \in 0..Len(namespacesToBackup) |->
                            NewTask(IF t = 0 THEN "" ELSE namespacesToBackup[t])]
    /\ bProgress' = <<[completed |-> 0, current |-> "Starting backup..."]>>
    /\ bPc' = "collect"
    /\ UNCHANGED <<bOpts, bCancelled, bFailed, resourceChan, errorChan, bClosed,
                   bNil, allResources, bErrors, bRet, fs>>
    /\ BackupFrame

\* Channels that take no value
ChanCapNone == Len(<<>>)

ChanCap == Len(bPlan.namespaces) + 1

\* The namespace a goroutine was started with
TaskNamespace(t) == IF t = 0 THEN "" ELSE bPlan.namespaces[t]

\* A namespace goroutine looks at ctx before it does anything
TaskCheck(t) ==
    /\ bPc = "collect"
    /\ bTasks[t].pc = "check"
    /\ bTasks' = [bTasks EXCEPT ![t].pc = IF bCancelled THEN "done" ELSE "run"]
    /\ UNCHANGED <<bPc, bOpts, bCancelled, bFailed, bPlan, resourceChan, errorChan,
                   bClosed, bNil, allResources, bErrors, bProgress, bRet, fs>>
    /\ BackupFrame

\* One list call of a task; it fails when ctx is cancelled, and it may fail anyway
\* The conversions that have failed in the run
ConvertFails ==
    Cardinality(UNION { { <<t, d>> : d \in bTasks[t].dropped } : t \in DOMAIN bTasks })

TaskCall(t) ==
    /\ bPc = "collect"
    /\ bTasks[t].pc = "run"
    /\ bTasks[t].next <= Len(callsOf(TaskNamespace(t), bPlan.resourceTypes))
    /\ LET namespace == TaskNamespace(t)
           resourceType == callsOf(namespace, bPlan.resourceTypes)[bTasks[t].next]
           items == ListItems(namespace, resourceType)
       IN  \E listFails \in BOOLEAN, bad \in {0} \cup Converted(items, resourceType) :
            LET failed == backupFuncOrErr(namespace, resourceType, listFails, bad).err
            IN
              /\ bCancelled => listFails
              /\ listFails => bad = 0
              /\ bad # 0 => ConvertFails < MaxConvertFails
              /\ (failed /\ ~bCancelled) => Cardinality(bFailed) < MaxListFails
              /\ bTasks' = [bTasks EXCEPT
                               ![t] = [afterCall(@, namespace, resourceType, failed)
                                          EXCEPT !.late = IF bCancelled THEN @ + 1
                                                          ELSE @,
                                                 !.dropped =
                                                     IF bad = 0 THEN @
                                                     ELSE @ \cup {<<bTasks[t].next, bad>>}]]
              /\ bFailed' = IF failed
                            THEN bFailed \cup {<<namespace, resourceType, t,
                                                  bTasks[t].next>>}
                            ELSE bFailed
    /\ UNCHANGED <<bPc, bOpts, bCancelled, bPlan, resourceChan, errorChan,
                   bClosed, bNil, allResources, bErrors, bProgress, bRet, fs>>
    /\ BackupFrame

\* A task that appends to the aggregate itself instead of sending
TaskWritesAggregate(t) ==
    /\ bPc = "collect"
    /\ bTasks[t].pc = "run"
    /\ bTasks[t].next > Len(callsOf(TaskNamespace(t), bPlan.resourceTypes))
    /\ Len(resourceChan) < ChanCap
    /\ resourceChan' = Append(resourceChan, <<>>)
    /\ allResources' = allResources \o bTasks[t].resources
    /\ bTasks' = [bTasks EXCEPT ![t].pc = "sendErrors"]
    /\ UNCHANGED <<bPc, bOpts, bCancelled, bFailed, bPlan, errorChan,
                   bClosed, bNil, bErrors, bProgress, bRet, fs>>
    /\ BackupFrame

TaskSendResources(t) ==
    /\ bPc = "collect"
    /\ bTasks[t].pc = "run"
    /\ bTasks[t].next > Len(callsOf(TaskNamespace(t), bPlan.resourceTypes))
    /\ Len(resourceChan) < ChanCap
    /\ resourceChan' = Append(resourceChan, bTasks[t].resources)
    /\ bTasks' = [bTasks EXCEPT ![t].pc = "sendErrors"]
    /\ UNCHANGED <<bPc, bOpts, bCancelled, bFailed, bPlan, errorChan,
                   bClosed, bNil, allResources, bErrors, bProgress, bRet, fs>>
    /\ BackupFrame

TaskSendErrors(t) ==
    /\ bPc = "collect"
    /\ bTasks[t].pc = "sendErrors"
    /\ Len(errorChan) < ChanCap
    /\ errorChan' = Append(errorChan, bTasks[t].errors)
    /\ bTasks' = [bTasks EXCEPT ![t].pc = "done"]
    /\ UNCHANGED <<bPc, bOpts, bCancelled, bFailed, bPlan, resourceChan,
                   bClosed, bNil, allResources, bErrors, bProgress, bRet, fs>>
    /\ BackupFrame

\* wg.Wait() returns when every task is done; then the channels are closed
CloseResourceChan ==
    /\ bPc = "collect"
    /\ \A t \in DOMAIN bTasks : bTasks[t].pc = "done"
    /\ "resource" \notin bClosed
    /\ bClosed' = bClosed \cup {"resource"}
    /\ UNCHANGED <<bPc, bOpts, bCancelled, bFailed, bPlan, bTasks, resourceChan,
                   errorChan, bNil, allResources, bErrors, bProgress, bRet, fs>>
    /\ BackupFrame

CloseErrorChan ==
    /\ bPc = "collect"
    /\ "resource" \in bClosed
    /\ "error" \notin bClosed
    /\ bClosed' = bClosed \cup {"error"}
    /\ UNCHANGED <<bPc, bOpts, bCancelled, bFailed, bPlan, bTasks, resourceChan,
                   errorChan, bNil, allResources, bErrors, bProgress, bRet, fs>>
    /\ BackupFrame

\* A progress that reports the size of the slice just received
completedOfBatch(collected, resources) == Len(resources)

\* backup.go:116-118: completed += len(resources); completed is the number
\* of records collected so far
completedAfter(collected, resources) == Len(collected) + Len(resources)

\* The select loop: a value, or the closing, of either channel is received
ReceiveResources ==
    /\ bPc = "collect"
    /\ "resource" \notin bNil
    /\ \/ /\ resourceChan # <<>>
          /\ resourceChan' = Tail(resourceChan)
          /\ allResources' = allResources \o Head(resourceChan)
          /\ bProgress' = Append(bProgress,
                 [completed |-> completedAfter(allResources, Head(resourceChan)),
                  current |-> "Collected resources"])
          /\ UNCHANGED bNil
       \/ /\ resourceChan = <<>>
          /\ "resource" \in bClosed
          /\ bNil' = bNil \cup {"resource"}
          /\ UNCHANGED <<resourceChan, allResources, bProgress>>
    /\ UNCHANGED <<bPc, bOpts, bCancelled, bFailed, bPlan, bTasks, errorChan,
                   bClosed, bErrors, bRet, fs>>
    /\ BackupFrame

ReceiveErrors ==
    /\ bPc = "collect"
    /\ "error" \notin bNil
    /\ \/ /\ errorChan # <<>>
          /\ errorChan' = Tail(errorChan)
          /\ bErrors' = bErrors \o Head(errorChan)
          /\ UNCHANGED bNil
       \/ /\ errorChan = <<>>
          /\ "error" \in bClosed
          /\ bNil' = bNil \cup {"error"}
          /\ UNCHANGED <<errorChan, bErrors>>
    /\ UNCHANGED <<bPc, bOpts, bCancelled, bFailed, bPlan, bTasks, resourceChan,
                   bClosed, allResources, bProgress, bRet, fs>>
    /\ BackupFrame

BackupMetadata ==
    [name |-> bOpts.backupName,
     timestamp |-> [wall |-> "t0", mono |-> TRUE],
     version |-> "v1",
     kubernetesVersion |-> bPlan.k8sVersion,
     namespaces |-> bPlan.namespaces,
     resourceTypes |-> bPlan.resourceTypes,
     totalResources |-> Len(allResources),
     backupPath |-> <<>>,
     size |-> 0,
     compress |-> bOpts.compress]

\* Both channels are nil: the metadata is built, the snapshot is saved and
\* CreateBackup returns.  The collected errors are only counted in the log.
BackupSave ==
    /\ bPc = "collect"
    /\ bNil = {"resource", "error"}
    /\ LET saved == SaveBackup(fs, BasePath, BackupMetadata, allResources, bCancelled,
                               "none")
       IN  /\ fs' = saved.fs
           /\ bRet' = IF saved.err # "nil"
                      THEN [called |-> TRUE, metadata |-> NoMetadata, err |-> "save"]
                      ELSE [called |-> TRUE, metadata |-> <<saved.metadata>>,
                            err |-> "nil"]
           /\ bProgress' = bProgress \o
                 <<[completed |-> Len(allResources), current |-> "Saving backup files..."]>>
                 \o IF saved.err # "nil" THEN <<>>
                    ELSE <<[completed |-> Len(allResources),
                            current |-> "Backup completed"]>>
    /\ bPc' = "done"
    /\ UNCHANGED <<bOpts, bCancelled, bFailed, bPlan, bTasks, resourceChan, errorChan,
                   bClosed, bNil, allResources, bErrors>>
    /\ BackupFrame

BackupNext ==
    \/ BackupCancel
    \/ BackupVersionFails
    \/ BackupNamespacesFail
    \/ BackupFanOut
    \/ \E t \in DOMAIN bTasks : TaskCheck(t)
    \/ \E t \in DOMAIN bTasks : TaskCall(t)
    \/ \E t \in DOMAIN bTasks : TaskSendResources(t)
    \/ \E t \in DOMAIN bTasks : TaskSendErrors(t)
    \/ CloseResourceChan
    \/ CloseErrorChan
    \/ ReceiveResources
    \/ ReceiveErrors
    \/ BackupSave

(***************************************************************************)
(* Properties of the collector.                                            *)
(***************************************************************************)
\* The list calls the tasks of this run make, as
\* <<namespace, resourceType, task, position in the task's calls>>
PlannedCalls ==
    UNION { LET calls == callsOf(TaskNamespace(t), bPlan.resourceTypes)
            IN  { <<TaskNamespace(t), calls[i], t, i>> : i \in 1..Len(calls) } :
              t \in DOMAIN bTasks }

SameListing(c, d) == c[1] = d[1] /\ c[2] = d[2]

\* Calls of one namespace failed, and with a call every call that lists the
\* same kind of the same namespace
FailedInOneNamespace ==
    /\ bFailed # {}
    /\ \E ns \in Elems(bPlan.namespaces) : \A c \in bFailed : c[1] = ns
    /\ \A c \in bFailed, d \in PlannedCalls : SameListing(c, d) => d \in bFailed

\* What LoadBackup reads from the snapshot that CreateBackup returned
Snapshot == LoadBackup(fs, SavedPath(bRet.metadata[1]), FALSE)

Holds(resources, r) ==
    \E i \in 1..Len(resources) :
        InfoKey(resources[i]) = InfoKey(r) /\ resources[i].content = r.content

WarningsFor(c) ==
    { i \in 1..Len(bErrors) :
        bErrors[i].namespace = c[1] /\ bErrors[i].resourceType = c[2] }

\* C7: when list calls of one namespace fail (all of them, or one kind) and
\* the others succeed, CreateBackup returns metadata and a nil error, the
\* saved snapshot holds every record of the calls that succeeded, and each
\* failed call is in the warnings once and leaves nothing in the snapshot.
C7_PartialFailure ==
    (bPc = "done" /\ ~bCancelled /\ FailedInOneNamespace)
        => /\ bRet.metadata # NoMetadata
           /\ bRet.err = "nil"
           /\ Snapshot.err = "nil"
           /\ \A c \in PlannedCalls \ bFailed :
                 \A i \in 1..Len(backupFunc(c[1], c[2])) :
                     Holds(Snapshot.resources, backupFunc(c[1], c[2])[i])
           /\ \A c \in bFailed :
                 /\ Cardinality(WarningsFor(c))
                       = Cardinality({ d \in bFailed : SameListing(c, d) })
                 /\ \A i \in 1..Len(Snapshot.resources) :
                       ~(/\ Snapshot.resources[i].info.namespace = c[1]
                         /\ Snapshot.resources[i].info.kind = KindOfType(c[2]))

\* Every list call of namespace a failed, and namespace b was collected
C7_Witness ==
    /\ bPc = "done"
    /\ ~bCancelled
    /\ bFailed = {<<"a", "configmaps", 1, 1>>, <<"a", "secrets", 1, 2>>}
    /\ bRet.err = "nil"
    /\ Len(bErrors) = 2
    /\ \E i \in 1..Len(allResources) : allResources[i].info.namespace = "b"

(***************************************************************************)
(* Manager.filterResources on its own: a list of records is filtered under *)
(* one pair of include-sets.                                               *)
(***************************************************************************)
FilterRecords ==
    { Rec("Namespace", "", "prod"), Rec("Secret", "default", "db"),
      Rec("Secret", "cluster", "db"), Rec("Deployment", "prod", "api") }

FilterOptions ==
    [namespaces : SUBSET {"", "cluster", "default", "prod"},
     resourceTypes : {{}, {"secrets"}, {"deployment", "namespace"}}]

FilterStart ==
    /\ fPc = "input"
    /\ fIn \in SeqsUpTo(FilterRecords, MaxFilterLen)
    /\ fOpts \in FilterOptions
    /\ fOut = <<>>

FilterIdle ==
    /\ fPc = "idle"
    /\ fIn = <<>>
    /\ fOpts = [namespaces |-> {}, resourceTypes |-> {}]
    /\ fOut = <<>>

FilterApply ==
    /\ fPc = "input"
    /\ fOut' = filterResources(fIn, fOpts)
    /\ fPc' = "filtered"
    /\ UNCHANGED <<fIn, fOpts>>
    /\ FilterFrame

FilterNext == FilterApply

\* The namespace policy in the words of the specification
NamespacePolicyKeeps(r, includeSet) ==
    IF includeSet = {} THEN TRUE
    ELSE IF r.namespace # "" THEN r.namespace \in includeSet
    ELSE "" \in includeSet \/ "cluster" \in includeSet

RECURSIVE KeptBy(_, _)
KeptBy(s, includeSet) ==
    IF s = <<>> THEN <<>>
    ELSE IF NamespacePolicyKeeps(Head(s), includeSet)
    THEN <<Head(s)>> \o KeptBy(Tail(s), includeSet)
    ELSE KeptBy(Tail(s), includeSet)

\* C11: with no kind filter, filterResources keeps exactly the records the
\* namespace policy keeps, in their order: a namespaced record iff its
\* namespace is in the include-set, a cluster-scoped record iff the set holds
\* "" or "cluster", and every record when the set is empty; with a kind
\* filter it keeps no record that the namespace policy drops.
C11_NamespacePolicy ==
    fPc = "filtered"
        => /\ fOpts.resourceTypes = {} => fOut = KeptBy(fIn, fOpts.namespaces)
           /\ \A i \in 1..Len(fOut) : NamespacePolicyKeeps(fOut[i], fOpts.namespaces)

\* A cluster-scoped record is kept under {"cluster"} while a record of
\* namespace default is dropped.
C11_Witness ==
    /\ fPc = "filtered"
    /\ fOpts = [namespaces |-> {"cluster"}, resourceTypes |-> {}]
    /\ fIn = <<Rec("Secret", "default", "db"), Rec("Namespace", "", "prod")>>
    /\ fOut = <<Rec("Namespace", "", "prod")>>

RecordsInFlight ==
    allResources
        \o (IF bTasks = <<>> THEN <<>>
            ELSE LET RECURSIVE held(_)
                     held(T) == IF T = {} THEN <<>>
                                ELSE LET t == CHOOSE x \in T : TRUE
                                     IN  bTasks[t].resources \o held(T \ {t})
                 IN  held(DOMAIN bTasks))

\* C12: a namespace in ExcludeNamespaces gets no task and no list call, gives
\* no record and is not in the metadata's namespaces, and a resource type in
\* ExcludeResourceTypes is not listed, gives no record and is not in the
\* metadata's resource types, also when the include-set names it.
C12_ExcludesWin ==
    /\ \A ns \in Elems(bOpts.excludeNamespaces) :
          /\ ns \notin Elems(bPlan.namespaces)
          /\ \A t \in DOMAIN bTasks : TaskNamespace(t) # ns
          /\ \A c \in PlannedCalls : c[1] # ns
          /\ \A i \in 1..Len(RecordsInFlight) : RecordsInFlight[i].info.namespace # ns
          /\ bRet.metadata # NoMetadata
                => ns \notin Elems(bRet.metadata[1].namespaces)
    /\ \A rt \in Elems(bOpts.excludeResourceTypes) :
          /\ rt \notin Elems(bPlan.resourceTypes)
          /\ \A c \in PlannedCalls : c[2] # rt
          /\ \A i \in 1..Len(RecordsInFlight) :
                RecordsInFlight[i].info.kind # KindOfType(rt)
          /\ bRet.metadata # NoMetadata
                => rt \notin Elems(bRet.metadata[1].resourceTypes)

\* Namespace b and the secrets are both included and excluded, and the
\* backup returned with records of what was left.
C12_Witness ==
    /\ bPc = "done"
    /\ bRet.metadata # NoMetadata
    /\ bOpts.namespaces = <<"b", "a">>
    /\ bOpts.excludeNamespaces = <<"b">>
    /\ "secrets" \in Elems(bOpts.resourceTypes)
    /\ bOpts.excludeResourceTypes = <<"secrets">>
    /\ allResources # <<>>

\* The manifest that the last SaveBackup left at the root of the snapshot:
\* in the directory, or in the archive when the save compressed it.
RootManifest ==
    LET metadata == MetaOf(stRound)
        backupDir == BasePath \o <<metadata.name>>
        inArchive == fs[SavedPath(metadata)].entries
        entry == CHOOSE i \in 1..Len(inArchive) : inArchive[i].name = <<ManifestFileName>>
    IN  IF metadata.compress
        THEN IF /\ SavedPath(metadata) \in DOMAIN fs
                /\ \E i \in 1..Len(inArchive) : inArchive[i].name = <<ManifestFileName>>
             THEN inArchive[entry].manifest
             ELSE <<>>
        ELSE IF backupDir \o <<ManifestFileName>> \in DOMAIN fs
             THEN fs[backupDir \o <<ManifestFileName>>].manifest
             ELSE <<>>

ExpectedPath(info) ==
    IF info.namespace = ""
    THEN <<"cluster", ToLower(info.kind) \o "-" \o info.name \o ".yaml">>
    ELSE <<info.namespace, ToLower(info.kind) \o "-" \o info.name \o ".yaml">>

\* C13: after a save in which no write failed, manifest.yaml is at the
\* snapshot root and gives each record the path <namespace>/<lowercase(kind)>-<name>.yaml, with cluster
\* for an empty namespace; the records Namespace/-/prod, Secret/prod/db and
\* Deployment/prod/api get cluster/namespace-prod.yaml, prod/secret-db.yaml
\* and prod/deployment-api.yaml, and a load of them gives 3 records.
C13_RelativePaths ==
    /\ (stPc = "saved" /\ stSaves[stRound].err = "nil"
           /\ stSaves[stRound].ioFail = "none")
          => /\ RootManifest # <<>>
             /\ Len(RootManifest[1].resources) = Len(stRecs)
             /\ \A i \in 1..Len(stRecs) :
                   RootManifest[1].resources[i].relativePath = ExpectedPath(stRecs[i].info)
             /\ stRecs = ScenarioRecords
                   => [i \in 1..3 |-> RootManifest[1].resources[i].relativePath]
                        = << <<"cluster", "namespace-prod.yaml">>,
                             <<"prod", "secret-db.yaml">>,
                             <<"prod", "deployment-api.yaml">> >>
    /\ \A round \in DOMAIN stLoads :
          (stRecs = ScenarioRecords /\ stLoads[round].err = "nil")
              => Len(stLoads[round].manifest[1].resources) = 3

\* The three records of the scenario were saved and loaded
C13_Witness ==
    /\ stPc = "loaded"
    /\ stRecs = ScenarioRecords
    /\ stLoads[stRound].err = "nil"
    /\ stLoads[stRound].manifest[1].resources[2].relativePath = <<"prod", "secret-db.yaml">>

\* C14: when ctx is cancelled before or during the collection, CreateBackup
\* returns an error, never nil, and returns what was collected so far with it.
C14_CancelledBackupFails ==
    (bPc = "done" /\ bCancelled)
        => /\ bRet.err # "nil"
           /\ allResources # <<>> => bRet.metadata # NoMetadata

\* The entries of the current RestoreBackup call in the history
RunEntries == { i \in DOMAIN rLog : rLog[i].run = rRun }

CountOutcome(outcomes) ==
    Cardinality({ i \in RunEntries : rLog[i].outcome \in outcomes })

WaitSawCancel == \E i \in RunEntries : rLog[i].wait = "cancelled"

\* C15: once the cancellation is seen, at the top of the loop or in the wait
\* after an apply, no further record is applied and RestoreBackup returns the
\* context error with a result whose counts are those of the records handled
\* before.
C15_CancelledRestore ==
    /\ \A i, j \in RunEntries : (i < j /\ rLog[i].wait = "cancelled") => FALSE
    /\ (rPc = "done" /\ rRet.err = "context canceled")
          => /\ ~rRet.resultNil
             /\ rResult.processed = CountOutcome({"processed"})
             /\ rResult.skipped = (Len(rLoaded) - Len(rSorted)) + CountOutcome({"skipped"})
             /\ Len(rResult.errors) = CountOutcome({"parse_error", "apply_error"})
    /\ (rPc = "done" /\ WaitSawCancel) => rRet.err = "context canceled"

\* C16: CreateBackup and RestoreBackup return an error only when a storage
\* operation failed or ctx was cancelled; no failure of a Resource API call,
\* the version query and the namespace listing included, is returned.
C16_OnlyStorageAndCancelPropagate ==
    /\ (bPc = "done" /\ bRet.err # "nil")
          => /\ bRet.err = "save" \/ bCancelled
             /\ bRet.err \notin {"version", "namespaces"} \/ bCancelled
    /\ (rPc = "done" /\ rRet.err # "nil")
          => rRet.err = "load" \/ rCancelled

\* C17: after a successful save, the size is the sum of the content lengths
\* of the saved records, in the manifest on disk and in the metadata that
\* CreateBackup returns.
C17_SizeIsSumOfContents ==
    (bPc = "done" /\ bRet.err = "nil")
        => /\ Snapshot.err = "nil"
           /\ Snapshot.manifest[1].metadata.size = totalSizeOf(allResources)
           /\ bRet.metadata[1].size = totalSizeOf(allResources)

\* C18: after a successful save, the path in the returned metadata and in
\* the manifest on disk is the final location of the snapshot: it exists and
\* LoadBackup reads it, the directory when Compress is false and the .tar.gz
\* archive when it is true.
C18_PathIsFinalLocation ==
    (bPc = "done" /\ bRet.err = "nil")
        => LET path == bRet.metadata[1].backupPath
           IN  /\ path = SavedPath(bRet.metadata[1])
               /\ path \in DOMAIN fs
               /\ LoadBackup(fs, path, FALSE).err = "nil"
               /\ Snapshot.err = "nil"
               /\ Snapshot.manifest[1].metadata.backupPath = path

\* The archive of the last save is there, readable, and holds the manifest
\* and the file of every record.
ArchiveComplete ==
    LET archivePath == SavedPath(MetaOf(stRound))
        names == { fs[archivePath].entries[i].name : i \in 1..Len(fs[archivePath].entries) }
    IN  /\ archivePath \in DOMAIN fs
        /\ fs[archivePath].type = "archive"
        /\ <<ManifestFileName>> \in names
        /\ \A i \in 1..Len(stRecs) : relativePathOf(stRecs[i].info) \in names

\* C19: when a step of the archive creation fails (creating the file,
\* writing a header or a body, closing the streams), SaveBackup returns an
\* error; it never returns nil while the archive is missing or incomplete.
C19_CompressionFailureFails ==
    (stPc = "saved" /\ MetaOf(stRound).compress)
        => /\ stSaves[stRound].ioFail # "none" => stSaves[stRound].err # "nil"
           /\ stSaves[stRound].err = "nil" => ArchiveComplete

(***************************************************************************)
(* LocalStorage.ListBackups, loadMetadataFromManifest and                  *)
(* loadMetadataFromCompressed.                                             *)
(***************************************************************************)
\* os.ReadDir: the names in a directory, sorted by name
ReadDir(f, dir) ==
    LET names == SortPaths({ Rel(dir, p) : p \in { x \in DOMAIN f : Dir(x) = dir } })
    IN  [i \in 1..Len(names) |-> names[i][1]]

\* os.Stat(archivePath).Size(): a header and the bytes of each member
RECURSIVE StatSize(_)
StatSize(tarEntries) ==
    IF tarEntries = <<>> THEN 0
    ELSE 1 + Len(Head(tarEntries).data) + StatSize(Tail(tarEntries))

loadMetadataFromManifest(f, manifestPath) ==
    LET read == ReadFile(f, manifestPath)
    IN  IF read.err THEN [err |-> "read", metadata |-> <<>>]
        ELSE IF read.entry.manifest = <<>>
        THEN [err |-> "unmarshal", metadata |-> <<>>]
        ELSE [err |-> "nil",
              metadata |-> <<Unmarshal(read.entry.manifest[1]).metadata>>]

\* loadMetadataFromCompressed without its deferred os.RemoveAll
loadMetadataFromCompressedLeaks(f, archivePath) ==
    LET extracted == extractBackup(f, archivePath)
        loaded == loadMetadataFromManifest(extracted.fs,
                                           TempDir \o <<ManifestFileName>>)
    IN  IF extracted.err # "nil"
        THEN [err |-> extracted.err, metadata |-> <<>>, fs |-> extracted.fs]
        ELSE IF loaded.err # "nil"
        THEN [err |-> loaded.err, metadata |-> <<>>, fs |-> extracted.fs]
        ELSE [err |-> "nil",
              metadata |-> <<[loaded.metadata[1] EXCEPT
                                 !.backupPath = archivePath,
                                 !.size = StatSize(f[archivePath].entries)]>>,
              fs |-> extracted.fs]

loadMetadataFromCompressed(f, archivePath) ==
    LET extracted == extractBackup(f, archivePath)
        loaded == loadMetadataFromManifest(extracted.fs,
                                           TempDir \o <<ManifestFileName>>)
        cleaned == RemoveAll(extracted.fs, TempDir)
    IN  IF extracted.err # "nil"
        THEN [err |-> extracted.err, metadata |-> <<>>, fs |-> extracted.fs]
        ELSE IF loaded.err # "nil"
        THEN [err |-> loaded.err, metadata |-> <<>>, fs |-> cleaned]
        ELSE [err |-> "nil",
              metadata |-> <<[loaded.metadata[1] EXCEPT
                                 !.backupPath = archivePath,
                                 !.size = StatSize(f[archivePath].entries)]>>,
              fs |-> cleaned]

\* The loop over the entries of the base path: an entry whose metadata
\* cannot be loaded is passed over.
RECURSIVE listEntries(_, _, _, _)
listEntries(f, basePath, entries, i) ==
    IF i > Len(entries) THEN [err |-> "nil", backups |-> <<>>, fs |-> f]
    ELSE LET path == basePath \o <<entries[i]>>
             fromDir == loadMetadataFromManifest(f, path \o <<ManifestFileName>>)
             fromArchive == loadMetadataFromCompressed(f, path)
             found == IF f[path].type = "dir" THEN fromDir.metadata
                      ELSE IF HasSuffix(entries[i], ".tar.gz")
                      THEN fromArchive.metadata
                      ELSE <<>>
             after == IF f[path].type # "dir" /\ HasSuffix(entries[i], ".tar.gz")
                      THEN fromArchive.fs ELSE f
             rest == listEntries(after, basePath, entries, i + 1)
         IN  [rest EXCEPT !.backups = found \o rest.backups]

\* A listing that gives up when an entry cannot be read
ListBackupsGivesUp(f, basePath) ==
    LET listed == IF basePath \in DOMAIN f /\ f[basePath].type = "dir"
                  THEN listEntries(f, basePath, ReadDir(f, basePath), 1)
                  ELSE [err |-> "nil", backups |-> <<>>, fs |-> f]
    IN  IF basePath \in DOMAIN f /\ f[basePath].type = "dir"
           /\ Len(listed.backups) < Len(ReadDir(f, basePath))
        THEN [err |-> "entry", backups |-> <<>>, fs |-> listed.fs]
        ELSE listed

\* os.RemoveAll returns nil for a path that is not there
DeleteBackup(f, backupPath) == [err |-> "nil", fs |-> RemoveAll(f, backupPath)]

ListBackups(f, basePath) ==
    IF basePath \notin DOMAIN f
    THEN [err |-> "nil", backups |-> <<>>, fs |-> f]
    ELSE IF f[basePath].type # "dir"
    THEN [err |-> "read dir", backups |-> <<>>, fs |-> f]
    ELSE listEntries(f, basePath, ReadDir(f, basePath), 1)

(***************************************************************************)
(* The listing as a state machine: the base path is filled by saves, some  *)
(* of them cancelled or with a failing archive, and by files that are no   *)
(* snapshot; then ListBackups is called.                                   *)
(***************************************************************************)
ListNames == {"a", "b"}

ListRecordLists ==
    {<<>>} \cup { <<r>> : r \in { x \in StoreRecords :
                                    /\ x.info.namespace = "a"
                                    /\ x.info.labels = "nil"
                                    /\ x.content = "v1" } }

ListMetadata(name, compress, resources) ==
    [name |-> name, timestamp |-> [wall |-> "t0", mono |-> TRUE],
     version |-> "v1", kubernetesVersion |-> "v1.28", namespaces |-> <<"a">>,
     resourceTypes |-> <<"secrets">>, totalResources |-> Len(resources),
     backupPath |-> <<>>, size |-> 0, compress |-> compress]

NoListing == [err |-> "nil", backups |-> <<>>]

ListStart ==
    /\ lPc = "setup"
    /\ lSteps = 0
    /\ lOut = NoListing
    /\ lLive = {}
    /\ lClean = TRUE

ListIdle ==
    /\ lPc = "idle"
    /\ lSteps = 0
    /\ lOut = NoListing
    /\ lLive = {}
    /\ lClean = TRUE

\* A SaveBackup into the base path
ListSave ==
    /\ lPc = "setup"
    /\ lSteps < MaxListSteps
    /\ \E name \in ListNames, compress \in BOOLEAN, cancelled \in BOOLEAN,
          resources \in ListRecordLists, ioFail \in {"none", "write", "close"} :
          /\ ioFail # "none" => (compress /\ ~cancelled)
          /\ cancelled => resources # <<>>
          /\ LET saved == SaveBackup(fs, BasePath,
                                      ListMetadata(name, compress, resources),
                                      resources, cancelled, ioFail)
                 ok == saved.err = "nil" /\ ioFail = "none"
             IN  /\ fs' = saved.fs
                 /\ lLive' = IF ok THEN lLive \cup {name} ELSE lLive
                 /\ lClean' = (lClean /\ ok)
    /\ lSteps' = lSteps + 1
    /\ UNCHANGED <<lPc, lOut>>
    /\ ListFrame

\* Something else writes below the base path: a manifest is overwritten
\* with bytes that are no YAML, or a file that is no snapshot is put there.
ListForeignWrite ==
    /\ lPc = "setup"
    /\ lSteps < MaxListSteps
    /\ \E p \in { BasePath \o <<n, ManifestFileName>> : n \in ListNames }
                \cup { BasePath \o <<n>> : n \in {"notes.txt", "a.tar.gz"} } :
          LET w == WriteFile(fs, p, FileEntry("w"))
          IN  /\ ~w.err
              /\ fs' = w.fs
    /\ lSteps' = lSteps + 1
    /\ lClean' = FALSE
    /\ UNCHANGED <<lPc, lOut, lLive>>
    /\ ListFrame

\* The base path is a file
ListBlockBasePath ==
    /\ lPc = "setup"
    /\ lSteps = 0
    /\ BasePath \notin DOMAIN fs
    /\ fs' = [p \in DOMAIN fs \cup {BasePath} |->
                 IF p = BasePath THEN FileEntry("w") ELSE fs[p]]
    /\ lSteps' = lSteps + 1
    /\ lClean' = FALSE
    /\ UNCHANGED <<lPc, lOut, lLive>>
    /\ ListFrame

\* DeleteBackup of the path at which a snapshot of the base path is stored
ListDelete ==
    /\ lPc = "setup"
    /\ lSteps < MaxListSteps
    /\ \E name \in ListNames, compress \in BOOLEAN :
          LET backupPath == SavedPath([name |-> name, compress |-> compress])
          IN  /\ backupPath \in DOMAIN fs
              /\ fs' = DeleteBackup(fs, backupPath).fs
              /\ lLive' = lLive \ {name}
    /\ lSteps' = lSteps + 1
    /\ UNCHANGED <<lPc, lOut, lClean>>
    /\ ListFrame

\* An archive of the base path is damaged: a member can no longer be read,
\* a member is gone, or the manifest in it is no longer YAML.
ListDamageArchive ==
    /\ lPc = "setup"
    /\ lSteps < MaxListSteps
    /\ \E p \in { x \in DOMAIN fs : Dir(x) = BasePath /\ fs[x].type = "archive" } :
          \E k \in 1..Len(fs[p].entries), how \in {"damaged", "gone", "garbled"} :
             LET members == fs[p].entries
                 changed ==
                    CASE how = "damaged" ->
                           [members EXCEPT ![k].typeflag = "damaged"]
                      [] how = "gone" ->
                           SubSeq(members, 1, k - 1)
                              \o SubSeq(members, k + 1, Len(members))
                      [] how = "garbled" ->
                           [members EXCEPT ![k].manifest = <<>>, ![k].data = "w"]
             IN  /\ how = "garbled" => members[k].manifest # <<>>
                 /\ how = "gone" => members[k].typeflag = "reg"
                 /\ fs' = [fs EXCEPT ![p] = ArchiveEntry(changed)]
    /\ lSteps' = lSteps + 1
    /\ lClean' = FALSE
    /\ UNCHANGED <<lPc, lOut, lLive>>
    /\ ListFrame

\* LoadBackup of an archive of the base path, with ctx cancelled or not
ListLoad ==
    /\ lPc = "setup"
    /\ \E p \in { x \in DOMAIN fs : Dir(x) = BasePath /\ fs[x].type # "dir"
                                     /\ HasSuffix(Last(x), ".tar.gz") },
          cancelled \in BOOLEAN :
          LET loaded == LoadBackup(fs, p, cancelled)
          IN  /\ fs' = loaded.fs
              /\ lOut' = [err |-> loaded.err, backups |-> <<>>]
    /\ lPc' = "loaded"
    /\ UNCHANGED <<lSteps, lLive, lClean>>
    /\ ListFrame

ListCall ==
    /\ lPc = "setup"
    /\ LET listed == ListBackups(fs, BasePath)
       IN  /\ fs' = listed.fs
           /\ lOut' = [err |-> listed.err, backups |-> listed.backups]
    /\ lPc' = "listed"
    /\ UNCHANGED <<lSteps, lLive, lClean>>
    /\ ListFrame

ListNext ==
    \/ ListSave
    \/ ListForeignWrite
    \/ ListDamageArchive
    \/ ListBlockBasePath
    \/ ListDelete
    \/ ListLoad
    \/ ListCall

\* The entries of the base path, and which of them are snapshots that can be
\* read: a directory with a manifest that parses, an archive that is a whole
\* gzipped tar with such a manifest.
BaseEntries == { p \in DOMAIN fs : Dir(p) = BasePath }

ReadableDirectory(p) ==
    /\ fs[p].type = "dir"
    /\ (p \o <<ManifestFileName>>) \in DOMAIN fs
    /\ fs[p \o <<ManifestFileName>>].type = "file"
    /\ fs[p \o <<ManifestFileName>>].manifest # <<>>

ReadableArchive(p) ==
    /\ fs[p].type = "archive"
    /\ HasSuffix(Last(p), ".tar.gz")
    /\ \A i \in 1..Len(fs[p].entries) : fs[p].entries[i].typeflag # "damaged"
    /\ \E i \in 1..Len(fs[p].entries) :
          /\ fs[p].entries[i].name = <<ManifestFileName>>
          /\ fs[p].entries[i].manifest # <<>>

Readable(p) == ReadableDirectory(p) \/ ReadableArchive(p)

ListedAt(p) == \E i \in 1..Len(lOut.backups) : lOut.backups[i].backupPath = p

\* C20: ListBackups returns no error because of an entry: a directory whose
\* manifest is missing or does not parse and an archive that cannot be
\* extracted or parsed are left out, and every readable snapshot of the base
\* path is returned.
C20_ListSkipsBadEntries ==
    (lPc = "listed" /\ (BasePath \in DOMAIN fs => fs[BasePath].type = "dir"))
        => /\ lOut.err = "nil"
           /\ \A p \in BaseEntries : ListedAt(p) <=> Readable(p)
           /\ Len(lOut.backups) = Cardinality({ p \in BaseEntries : Readable(p) })

\* A listing of a base path with a directory that is no snapshot, an archive
\* that cannot be read and a snapshot that can
C20_Witness ==
    /\ lPc = "listed"
    /\ lOut.err = "nil"
    /\ \E p, q, r \in BaseEntries :
          /\ fs[p].type = "dir" /\ ~Readable(p)
          /\ fs[q].type # "dir" /\ HasSuffix(Last(q), ".tar.gz") /\ ~Readable(q)
          /\ Readable(r) /\ ListedAt(r)

\* The entries of the listing that carry one snapshot name
EntriesNamed(name) == { i \in 1..Len(lOut.backups) : lOut.backups[i].name = name }

\* C21: after SaveBackup and DeleteBackup calls that all returned nil, the
\* listing holds exactly one entry for each name saved and not deleted since,
\* and none for any other name; with nothing in the base path, or no base
\* path, it is empty and the error is nil.
C21_ListIsLiveSnapshots ==
    (lPc = "listed" /\ lClean)
        => /\ lOut.err = "nil"
           /\ \A name \in ListNames :
                 Cardinality(EntriesNamed(name)) = IF name \in lLive THEN 1 ELSE 0
           /\ Len(lOut.backups) = Cardinality(lLive)

\* The record of a history entry is to be waited for after its apply
WaitDue(entry) ==
    entry.outcome = "processed" /\ rOpts.wait /\ ~rOpts.dryRun /\ rOpts.hasClient

\* C22: the replay handles one record at a time: the records are taken in the
\* order of sortResourcesByDependency, and the record at position i+1 is not
\* taken before the apply and the wait of the record at position i returned.
C22_OneApplyAtATime ==
    LET ordered == sortResourcesByDependency(filterResources(rLoaded, rOpts))
    IN  (rPc \in {"loop", "wait", "done"})
            => /\ Len(RunLog) <= Len(ordered)
               /\ \A i \in 1..Len(RunLog) :
                     /\ RunLog[i].pos = i
                     /\ RunLog[i].rec = ordered[i]
               /\ \A i \in 1..(Len(RunLog) - 1) :
                     WaitDue(RunLog[i]) => RunLog[i].wait # "none"
               /\ rPc = "wait" <=> (RunLog # <<>>
                                    /\ WaitDue(RunLog[Len(RunLog)])
                                    /\ RunLog[Len(RunLog)].wait = "none")

C22_Witness ==
    /\ rPc = "wait"
    /\ Len(RunLog) = 2
    /\ RunLog[1].wait = "timer"
    /\ RunLog[1].rec # rLoaded[1]

\* The entries of the current run whose content parsed
ParsedEntries == { i \in RunEntries : rLog[i].outcome # "parse_error" }

\* C23: in a dry run every record that passes the filter and parses ends
\* Skipped and is counted as skipped in the result, and none ends Failed
\* because of what the target holds.
C23_DryRunSkips ==
    (rOpts.dryRun /\ rPc = "done" /\ rRet.err = "nil")
        => /\ \A i \in ParsedEntries : rLog[i].outcome = "skipped"
           /\ rResult.skipped
                 = (Len(rLoaded) - Len(rSorted)) + Cardinality(ParsedEntries)
           /\ \A i \in RunEntries : rLog[i].outcome # "apply_error"

NonDecreasing(counts) ==
    \A i, j \in 1..Len(counts) : i < j => counts[i] <= counts[j]

\* C24: over the progress callbacks of one CreateBackup call and of one
\* RestoreBackup call the completed count never goes down, whatever the
\* order in which the tasks deliver and whatever the outcome of each record.
C24_CompletedNonDecreasing ==
    /\ NonDecreasing([i \in 1..Len(bProgress) |-> bProgress[i].completed])
    /\ NonDecreasing(rProgress)

\* A backup whose callback saw the count grow twice and then the final reports
C24_Witness ==
    /\ bPc = "done"
    /\ bRet.err = "nil"
    /\ \E i, j \in 1..Len(bProgress) :
          /\ i < j
          /\ 0 < bProgress[i].completed
          /\ bProgress[i].completed < bProgress[j].completed
          /\ bProgress[j].current = "Collected resources"

\* The identity keys of the records of a manifest are pairwise distinct
DistinctManifestKeys(infos) ==
    \A i, j \in 1..Len(infos) :
        i # j => <<infos[i].kind, infos[i].namespace, infos[i].name>>
                    # <<infos[j].kind, infos[j].namespace, infos[j].name>>

\* C25: in the snapshot CreateBackup produced, whatever the options, also
\* with an include-list that names an entry twice, no two records of the
\* manifest have the same (kind, namespace, name).
C25_SnapshotKeysUnique ==
    (bPc = "done" /\ bRet.err = "nil")
        => /\ Snapshot.err = "nil"
           /\ DistinctManifestKeys(Snapshot.manifest[1].resources)

\* C26: for records with pairwise distinct identity keys, also a record of a
\* namespace named cluster next to a cluster-scoped record of the same kind
\* and name, the relativePaths that SaveBackup writes into the manifest are
\* pairwise distinct.
C26_RelativePathsDistinct ==
    (/\ stPc = "saved"
     /\ stSaves[stRound].err = "nil"
     /\ stSaves[stRound].ioFail = "none"
     /\ DistinctIdentityKeys(stRecs))
        => /\ RootManifest # <<>>
           /\ LET infos == RootManifest[1].resources
              IN  \A i, j \in 1..Len(infos) :
                      i # j => infos[i].relativePath # infos[j].relativePath

(***************************************************************************)
(* LocalStorage.SaveBackup step by step: the directory, the first loop     *)
(* (directories and the look at ctx), the second loop (one file per        *)
(* record), the manifest, the archive.  Any write may fail, and ctx may be *)
(* cancelled between two steps.                                            *)
(***************************************************************************)
StepRecords == { r \in StoreRecords : r.info.labels = "nil" }

StepStart ==
    /\ wPc \in {"earlier", "mkdir"}
    /\ wIdx = 1
    /\ wBefore = <<>>
    /\ wRecs \in SeqsUpTo(StepRecords, MaxStoreRecs)
    /\ wMeta \in { m \in StoreMetadata(wRecs) : m.name = "b" /\ m.size = 0 }
    /\ wCancelled = FALSE
    /\ wIo = "none"
    /\ wErr = "nil"

StepIdle ==
    /\ wPc = "idle"
    /\ wIdx = 1
    /\ wBefore = <<>>
    /\ wRecs = <<>>
    /\ wMeta = ListMetadata("", FALSE, <<>>)
    /\ wCancelled = FALSE
    /\ wIo = "none"
    /\ wErr = "nil"

StepDir == BasePath \o <<wMeta.name>>

\* An earlier SaveBackup under the same name, without compression, that
\* returned nil, and what LoadBackup gives for it
StepEarlierSave ==
    /\ wPc = "earlier"
    /\ \E resources \in SeqsUpTo(StepRecords, MaxStoreRecs) :
          LET saved == SaveBackup(fs, BasePath,
                                  [wMeta EXCEPT !.compress = FALSE,
                                                !.totalResources = Len(resources)],
                                  resources, FALSE, "none")
          IN  /\ saved.err = "nil"
              /\ fs' = saved.fs
              /\ wBefore' = <<LoadBackup(saved.fs, StepDir, FALSE).resources>>
    /\ wPc' = "mkdir"
    /\ UNCHANGED <<wIdx, wMeta, wRecs, wCancelled, wIo, wErr>>
    /\ StepFrame

StepCancel ==
    /\ wPc \in {"mkdir", "dirs", "files", "manifest", "compress"}
    /\ ~wCancelled
    /\ wCancelled' = TRUE
    /\ UNCHANGED <<wPc, wIdx, wMeta, wRecs, wBefore, wIo, wErr, fs>>
    /\ StepFrame

\* part_001:37-53
StepMkdir ==
    /\ wPc = "mkdir"
    /\ LET made == MkdirAll(fs, StepDir)
       IN  /\ fs' = made.fs
           /\ wPc' = IF made.err THEN "returned"
                     ELSE IF wRecs = <<>> THEN "manifest" ELSE "dirs"
           /\ wErr' = IF made.err THEN "mkdir" ELSE "nil"
    /\ UNCHANGED <<wIdx, wMeta, wRecs, wBefore, wCancelled, wIo>>
    /\ StepFrame

\* part_001:55-85, one iteration
StepMakeDir ==
    /\ wPc = "dirs"
    /\ LET made == MkdirAll(fs, Dir(StepDir \o relativePathOf(wRecs[wIdx].info)))
           stop == made.err \/ wCancelled
       IN  /\ fs' = made.fs
           /\ wErr' = IF made.err THEN "mkdir"
                      ELSE IF wCancelled THEN "context canceled" ELSE "nil"
           /\ wPc' = IF stop THEN "returned"
                     ELSE IF wIdx = Len(wRecs) THEN "files" ELSE "dirs"
           /\ wIdx' = IF stop THEN wIdx
                      ELSE IF wIdx = Len(wRecs) THEN 1 ELSE wIdx + 1
    /\ UNCHANGED <<wMeta, wRecs, wBefore, wCancelled, wIo>>
    /\ StepFrame

\* part_001:88-94, one iteration
StepWriteFile ==
    /\ wPc = "files"
    /\ \E fails \in BOOLEAN :
          LET w == WriteFile(fs, StepDir \o relativePathOf(wRecs[wIdx].info),
                             FileEntry(wRecs[wIdx].content))
              stop == fails \/ w.err
          IN  /\ fs' = IF fails THEN fs ELSE w.fs
              /\ wIo' = IF fails THEN "file" ELSE wIo
              /\ wErr' = IF stop THEN "write" ELSE "nil"
              /\ wPc' = IF stop THEN "returned"
                        ELSE IF wIdx = Len(wRecs) THEN "manifest" ELSE "files"
              /\ wIdx' = IF stop \/ wIdx = Len(wRecs) THEN wIdx ELSE wIdx + 1
    /\ UNCHANGED <<wMeta, wRecs, wBefore, wCancelled>>
    /\ StepFrame

\* part_001:97-108
StepWriteManifest ==
    /\ wPc = "manifest"
    /\ \E fails \in BOOLEAN :
          LET w == WriteFile(fs, StepDir \o <<ManifestFileName>>,
                       ManifestEntry(Marshal(manifestOf(StepDir, wMeta, wRecs))))
              stop == fails \/ w.err
          IN  /\ fs' = IF fails THEN fs ELSE w.fs
              /\ wIo' = IF fails THEN "manifest" ELSE wIo
              /\ wErr' = IF stop THEN "write" ELSE "nil"
              /\ wPc' = IF stop \/ ~wMeta.compress THEN "returned" ELSE "compress"
    /\ UNCHANGED <<wIdx, wMeta, wRecs, wBefore, wCancelled>>
    /\ StepFrame

\* part_001:111-117
\* The archive file while the tar and gzip writers are open: what they have
\* been given is kept in entries, the file on disk is not a whole archive
UnfinalizedEntry(tarEntries) ==
    [type |-> "truncated", data |-> "", manifest |-> <<>>, entries |-> tarEntries]

StepArchive == Dir(StepDir) \o <<Last(StepDir) \o ".tar.gz">>

\* compressBackup up to the evaluation of its return statement
\* (part_001:215-282): the archive file is created, the directory is walked
\* into it and, when that went well, os.RemoveAll(backupDir) runs; the
\* deferred Close calls have not run yet.
StepCompress ==
    /\ wPc = "compress"
    /\ \E ioFail \in {"none", "create", "write", "close"} :
          LET packed == compressBackup(fs, StepDir, ioFail)
              whole == compressBackup(fs, StepDir, "none")
          IN  /\ wIo' = ioFail
              /\ IF packed.err # "nil"
                 THEN /\ fs' = packed.fs
                      /\ wErr' = packed.err
                      /\ wPc' = "returned"
                 ELSE /\ fs' = [packed.fs EXCEPT
                                  ![StepArchive] =
                                      UnfinalizedEntry(whole.fs[StepArchive].entries)]
                      /\ wErr' = wErr
                      /\ wPc' = "closing"
    /\ UNCHANGED <<wIdx, wMeta, wRecs, wBefore, wCancelled>>
    /\ StepFrame

\* The deferred tarWriter.Close, gzipWriter.Close and archiveFile.Close
\* (part_001:223-231) run after the return value is fixed; when one of them
\* fails the file stays as it is.
StepClose ==
    /\ wPc = "closing"
    /\ fs' = [fs EXCEPT ![StepArchive] = IF wIo = "close" THEN TruncatedEntry
                                         ELSE ArchiveEntry(@.entries)]
    /\ wErr' = "nil"
    /\ wPc' = "returned"
    /\ UNCHANGED <<wIdx, wMeta, wRecs, wBefore, wCancelled, wIo>>
    /\ StepFrame

StepNext ==
    \/ StepEarlierSave
    \/ StepCancel
    \/ StepMkdir
    \/ StepMakeDir
    \/ StepWriteFile
    \/ StepWriteManifest
    \/ StepCompress
    \/ StepClose

\* A save taken step by step, with no failed write and ctx as it was at the
\* start, leaves what SaveBackup taken at once leaves.
StepsAgreeWithSaveBackup ==
    (wPc = "returned" /\ wIo = "none" /\ ~wCancelled /\ wBefore = <<>>)
        => LET saved == SaveBackup([p \in {<<"tmp">>} |-> DirEntry], BasePath,
                                   wMeta, wRecs, FALSE, "none")
           IN  fs = saved.fs /\ wErr = saved.err

\* The manifest in the snapshot directory, if there is one
StepManifest ==
    IF (StepDir \o <<ManifestFileName>>) \in DOMAIN fs
    THEN fs[StepDir \o <<ManifestFileName>>].manifest
    ELSE <<>>

\* C27: at every point of a SaveBackup into a fresh directory, also one that
\* fails or is cancelled on the way, a manifest.yaml in the snapshot
\* directory lists only paths that are files with their record's content.
C27_ManifestAfterFiles ==
    StepManifest # <<>>
        => LET infos == StepManifest[1].resources
           IN  /\ Len(infos) = Len(wRecs)
               /\ \A i \in 1..Len(infos) :
                     LET path == StepDir \o infos[i].relativePath
                     IN  /\ path \in DOMAIN fs
                         /\ fs[path].type = "file"
                         /\ fs[path].data = wRecs[i].content

\* Nothing is left of the directory an archive was extracted into
NoScratch == \A p \in DOMAIN fs : ~IsPrefix(TempDir, p)

\* C28: when LoadBackup of an archive or ListBackups has returned, whether
\* the load succeeded, the extraction failed at an entry, the manifest was
\* missing or did not parse, a record file was missing or ctx was cancelled,
\* the scratch directory of the extraction is gone.
C28_ScratchRemoved ==
    (lPc \in {"listed", "loaded"}) => NoScratch

\* A load that failed at the third member of an archive, after two were
\* extracted
C28_Witness ==
    /\ lPc = "loaded"
    /\ lOut.err = "extract"
    /\ NoScratch
    /\ \E p \in BaseEntries :
          /\ fs[p].type = "archive"
          /\ Len(fs[p].entries) = 3
          /\ fs[p].entries[3].typeflag = "damaged"
          /\ fs[p].entries[1].typeflag # "damaged"
          /\ fs[p].entries[2].typeflag = "reg"

\* What the tasks from task t on hold in one of their local lists
RECURSIVE SlicesFrom(_, _)
SlicesFrom(t, field) ==
    IF t \notin DOMAIN bTasks THEN <<>>
    ELSE bTasks[t][field] \o SlicesFrom(t + 1, field)

Occurrences(x, s) == Cardinality({ i \in 1..Len(s) : s[i] = x })

SameBag(s, t) ==
    /\ Len(s) = Len(t)
    /\ \A x \in Elems(s) \cup Elems(t) : Occurrences(x, s) = Occurrences(x, t)

FanInDone == bPc = "done" /\ bRet.err \notin {"version", "namespaces"}

AllTasksDone == \A t \in DOMAIN bTasks : bTasks[t].pc = "done"

\* C29: every task gets to send and finish and the fan-in loop ends, and
\* when it has ended every task is done and the aggregate holds each task's
\* records and each task's errors once, no more and no less.
C29_FanInCompletes ==
    /\ (bPc = "collect") ~> (bPc = "done" /\ AllTasksDone)
    /\ [](FanInDone
            => /\ AllTasksDone
               /\ resourceChan = <<>> /\ errorChan = <<>>
               /\ SameBag(allResources, SlicesFrom(0, "resources"))
               /\ SameBag(bErrors, SlicesFrom(0, "errors")))

\* Three tasks, two of them with records and one with an error, all merged
C29_Witness ==
    /\ FanInDone
    /\ Cardinality(DOMAIN bTasks) = 3
    /\ Cardinality({ t \in DOMAIN bTasks : bTasks[t].resources # <<>> }) >= 2
    /\ \E t \in DOMAIN bTasks : bTasks[t].errors # <<>>
    /\ Len(allResources) >= 2
    /\ Len(bErrors) >= 1

\* A step of a collection task
TaskStep(t) ==
    TaskCheck(t) \/ TaskCall(t) \/ TaskSendResources(t) \/ TaskSendErrors(t)

\* A step that changes the aggregate, the warnings or what the callback saw
WritesAggregate ==
    \/ allResources' # allResources
    \/ bErrors' # bErrors
    \/ bProgress' # bProgress

\* C30: once the tasks are started, allResources, errors and the progress
\* reports change only in a step of the receiving loop (or, after it, of the
\* same goroutine saving), one report at a time while the loop runs, and no
\* step of a collection task changes any of them.
C30_OnlyFanInWrites ==
    [][/\ (WritesAggregate /\ bPc = "collect")
            => /\ bTasks' = bTasks
               /\ ReceiveResources \/ ReceiveErrors \/ BackupSave
       /\ (bPc = "collect" /\ bNil # {"resource", "error"})
            => Len(bProgress') <= Len(bProgress) + 1
       /\ \A t \in DOMAIN bTasks :
            TaskStep(t) => UNCHANGED <<allResources, bErrors, bProgress>>]_vars

\* The loop has merged and reported one task's records while another task
\* still holds records and an error of its own
C30_Witness ==
    /\ bPc = "collect"
    /\ allResources # <<>>
    /\ Len(bProgress) >= 2
    /\ \E t \in DOMAIN bTasks :
            /\ bTasks[t].pc = "run"
            /\ bTasks[t].resources # <<>>
            /\ bTasks[t].errors # <<>>

\* C31: once ctx is done a task starts at most one more list call (late
\* counts the calls a task made with ctx done).
C31_NoCallAfterCancel ==
    \A t \in DOMAIN bTasks : bTasks[t].late <= 1

\* The records of the other items of the list call that task t made at
\* position pos, when the conversion of item bad failed
OthersOfCall(t, pos, bad) ==
    LET namespace == TaskNamespace(t)
        resourceType == callsOf(namespace, bPlan.resourceTypes)[pos]
        items == ListItems(namespace, resourceType)
    IN  { convertToResourceWithContent(items[j], namespace, KindOfType(resourceType)) :
            j \in Converted(items, resourceType) \ {bad} }

\* C32: when the conversion of one object failed during collection, the
\* saved snapshot still holds every other object of the same list call, and
\* a warning for the call is recorded.
C32_OnlyFailedObjectDropped ==
    (bPc = "done" /\ bRet.err = "nil")
        => \A t \in DOMAIN bTasks : \A d \in bTasks[t].dropped :
              /\ \A r \in OthersOfCall(t, d[1], d[2]) : Holds(Snapshot.resources, r)
              /\ \E i \in 1..Len(bErrors) :
                    /\ bErrors[i].namespace = TaskNamespace(t)
                    /\ bErrors[i].resourceType
                          = callsOf(TaskNamespace(t), bPlan.resourceTypes)[d[1]]

\* The part of C32 that the collectors keep: the failure is a warning
C32_DroppedIsWarned ==
    (bPc = "done" /\ bRet.err = "nil")
        => \A t \in DOMAIN bTasks : \A d \in bTasks[t].dropped :
              \E i \in 1..Len(bErrors) :
                    /\ bErrors[i].namespace = TaskNamespace(t)
                    /\ bErrors[i].resourceType
                          = callsOf(TaskNamespace(t), bPlan.resourceTypes)[d[1]]

(***************************************************************************)
(* Normalization of one object: convertToResourceWithContent on an object  *)
(* with any of the cluster's fields set, then cleanObject once more.       *)
(***************************************************************************)
AnnotationKeys ==
    {"kubectl.kubernetes.io/last-applied-configuration",
     "kubectl.kubernetes.io/restartedAt",
     "deployment.kubernetes.io/revision",
     "autoscaling.alpha.kubernetes.io/conditions",
     "note"}

\* nil, or a map over some of the keys
AnnotationMaps ==
    {<<>>} \cup { <<{ <<k, "1">> : k \in K }>> : K \in SUBSET AnnotationKeys }

NormObjects ==
    [name : {"s"}, type : {""}, spec : {"v1"},
     labels : {<<>>, <<{<<"app", "x">>}>>},
     annotations : AnnotationMaps,
     resourceVersion : {"", "7"}, uid : {"", "u-s"}, generation : {0, 1},
     selfLink : {"", "/api/v1/s"}, creationTimestamp : {"", "t0"},
     deletionTimestamp : {<<>>, <<"t1">>},
     deletionGracePeriodSeconds : {<<>>, <<30>>},
     managedFields : {<<>>, <<"kubectl">>}]

NoObject == <<>>

NormStart ==
    /\ nPc = "input"
    /\ nObj \in NormObjects
    /\ nOut = NoObject
    /\ nAgain = NoObject

NormIdle ==
    /\ nPc = "idle"
    /\ nObj = NoObject
    /\ nOut = NoObject
    /\ nAgain = NoObject

\* convertToResourceWithContent: the object is cleaned, then serialized, then
\* its labels and annotations are read into the Info
NormConvert ==
    /\ nPc = "input"
    /\ LET cleaned == cleanObject(nObj)
       IN  nOut' = <<[object |-> cleaned,
                      content |-> MarshalObject(cleaned),
                      info |-> [name |-> cleaned.name, labels |-> cleaned.labels,
                                annotations |-> cleaned.annotations]]>>
    /\ nPc' = "converted"
    /\ UNCHANGED <<nObj, nAgain>>
    /\ NormFrame

\* cleanObject on the object that was cleaned
NormCleanAgain ==
    /\ nPc = "converted"
    /\ nAgain' = <<cleanObject(nOut[1].object)>>
    /\ nPc' = "again"
    /\ UNCHANGED <<nObj, nOut>>
    /\ NormFrame

NormNext == NormConvert \/ NormCleanAgain

\* The objects that differ from obj at most in what the normalization
\* removes, with nothing of it set: with the map of the other annotations,
\* and without annotations when no other is left
Bare(obj) ==
    LET base == [obj EXCEPT !.resourceVersion = "", !.uid = "", !.generation = 0,
                            !.selfLink = "", !.creationTimestamp = "",
                            !.deletionTimestamp = <<>>,
                            !.deletionGracePeriodSeconds = <<>>,
                            !.managedFields = <<>>]
        others == IF obj.annotations = <<>> THEN {}
                  ELSE { a \in obj.annotations[1] :
                           /\ a[1] # "kubectl.kubernetes.io/last-applied-configuration"
                           /\ a[1] \notin {"deployment.kubernetes.io/revision",
                                           "autoscaling.alpha.kubernetes.io/conditions"} }
    IN  { [base EXCEPT !.annotations = <<others>>] }
            \cup IF others = {} THEN { [base EXCEPT !.annotations = <<>>] } ELSE {}

\* C33: after the conversion of any object the eight fields of the cluster
\* are empty, no annotation of an apply or of a controller is left, every
\* other annotation and every label is as it was, the Info carries the
\* annotations of the cleaned object, the content is that of every object
\* that differs only in what is removed, and cleaning again changes nothing.
C33_Normalized ==
    (nPc \in {"converted", "again"})
        => LET out == nOut[1]
               obj == out.object
               kept == IF nObj.annotations = <<>> THEN {}
                       ELSE { a \in nObj.annotations[1] :
                                a[1] \in {"note", "kubectl.kubernetes.io/restartedAt"} }
           IN  /\ obj.resourceVersion = "" /\ obj.uid = "" /\ obj.generation = 0
               /\ obj.selfLink = "" /\ obj.creationTimestamp = ""
               /\ obj.deletionTimestamp = <<>>
               /\ obj.deletionGracePeriodSeconds = <<>>
               /\ obj.managedFields = <<>>
               /\ (nObj.annotations = <<>>) = (obj.annotations = <<>>)
               /\ obj.annotations # <<>> => obj.annotations[1] = kept
               /\ obj.labels = nObj.labels
               /\ obj.name = nObj.name /\ obj.spec = nObj.spec
               /\ out.info.annotations = obj.annotations
               /\ \A other \in Bare(nObj) : MarshalObject(cleanObject(other)) = out.content
               /\ nPc = "again" => nAgain[1] = obj

\* An object with every field of the cluster set and all five annotations
\* has been converted and cleaned again
C33_Witness ==
    /\ nPc = "again"
    /\ nObj.uid # "" /\ nObj.resourceVersion # "" /\ nObj.generation # 0
    /\ nObj.selfLink # "" /\ nObj.creationTimestamp # ""
    /\ nObj.deletionTimestamp # <<>> /\ nObj.deletionGracePeriodSeconds # <<>>
    /\ nObj.managedFields # <<>>
    /\ nObj.annotations # <<>> /\ Cardinality(nObj.annotations[1]) = 5
    /\ nOut[1].object.annotations[1]
          = {<<"note", "1">>, <<"kubectl.kubernetes.io/restartedAt", "1">>}

StrictlyAscending(s) == \A i \in 1..(Len(s) - 1) : StrLess(s[i], s[i + 1])

Ascending(s) == \A i \in 1..(Len(s) - 1) : ~StrLess(s[i + 1], s[i])

\* C34: in the metadata CreateBackup returns, the namespaces and the
\* resource types are each in ascending order without a repeated entry.
C34_MetadataListsSortedSets ==
    (bPc = "done" /\ bRet.metadata # NoMetadata)
        => /\ StrictlyAscending(bRet.metadata[1].namespaces)
           /\ StrictlyAscending(bRet.metadata[1].resourceTypes)

\* The part of C34 that sort.Strings gives: the namespaces are in order
C34_NamespacesAscending ==
    (bPc = "done" /\ bRet.metadata # NoMetadata)
        => Ascending(bRet.metadata[1].namespaces)

\* The records of the run whose loop body ended in one of the given ways
EndedAs(outcomes) ==
    Cardinality({ i \in 1..Len(RunLog) : RunLog[i].outcome \in outcomes })

\* The counts of a result add up to the records loaded, each record counted
\* once: as skipped by the filter or by the loop, as an error, or as processed
CountsAddUp ==
    LET filtered == filterResources(rLoaded, rOpts)
    IN  /\ rResult.processed + rResult.skipped + Len(rResult.errors) = Len(rLoaded)
        /\ rResult.skipped = (Len(rLoaded) - Len(filtered)) + EndedAs({"skipped"})
        /\ Len(rResult.errors) = EndedAs({"parse_error", "apply_error"})
        /\ rResult.processed = EndedAs({"processed"})

\* C35: when RestoreBackup returns a result and no error, processed plus
\* skipped plus the number of errors is the number of records loaded, every
\* record in one of the three: the records the filter left out and those
\* whose object already exists (without overwriteExisting) as skipped, the
\* parse and apply failures as errors, the others as processed.
C35_EveryRecordAccounted ==
    (rPc = "done" /\ rRet.err = "nil")
        => /\ CountsAddUp
           /\ \A i \in 1..Len(RunLog) :
                 LET e == RunLog[i]
                 IN  (/\ ~rOpts.dryRun /\ ~rOpts.overwriteExisting
                      /\ e.rec.kind \in applyKinds
                      /\ e.outcome \notin {"parse_error", "apply_error"}
                      /\ e.before # Absent)
                        => e.outcome = "skipped"

\* The part of C35 that the loop keeps: the three counts add up
C35_CountsAddUp ==
    (rPc = "done" /\ rRet.err = "nil") => CountsAddUp

\* C36: outside a dry run, every record counted as processed was created or
\* updated in the target: the client issued a call for it and the target
\* holds its content afterwards.
C36_ProcessedWasApplied ==
    \A i \in 1..Len(rLog) :
        (rLog[i].outcome = "processed" /\ ~rOpts.dryRun /\ rOpts.hasClient)
            => /\ rLog[i].calls # <<>>
               /\ rLog[i].after = rLog[i].rec.content

\* The part of C36 that holds: for the five kinds with a case in
\* applyResource a processed record is in the target
C36_ProcessedApplyKinds ==
    \A i \in 1..Len(rLog) :
        (/\ rLog[i].outcome = "processed" /\ ~rOpts.dryRun /\ rOpts.hasClient
         /\ rLog[i].rec.kind \in applyKinds)
            => /\ rLog[i].calls # <<>>
               /\ rLog[i].after = rLog[i].rec.content

\* Every task in whose scope the type lies has a list call for it
Attempted(resourceType) ==
    IF IsClusterScoped(resourceType)
    THEN \E c \in PlannedCalls : c[2] = resourceType /\ c[3] = 0
    ELSE \A t \in DOMAIN bTasks \ {0} :
            \E c \in PlannedCalls : c[2] = resourceType /\ c[3] = t

Warned(resourceType) ==
    \E i \in 1..Len(bErrors) : bErrors[i].resourceType = resourceType

\* C37: for every resource type in the metadata of a run that was not
\* cancelled, the type was listed in its scope (by the cluster task, or by
\* the task of each namespace) or a warning names it.
C37_RecordedTypesCollected ==
    (bPc = "done" /\ bRet.metadata # NoMetadata /\ ~bCancelled)
        => \A resourceType \in Elems(bRet.metadata[1].resourceTypes) :
              Attempted(resourceType) \/ Warned(resourceType)

\* The part of C37 that holds: the types with a collector are listed
C37_TypesWithCollector ==
    (bPc = "done" /\ bRet.metadata # NoMetadata /\ ~bCancelled)
        => \A resourceType \in Elems(bRet.metadata[1].resourceTypes) :
              resourceType \in backupFuncs \cup Elems(ClusterScopedOrder)
                  => Attempted(resourceType)

(***************************************************************************)
(* The counts of CreateBackup: the estimate that becomes progress.Total,   *)
(* and progress.Completed as the receiving loop adds the length of each    *)
(* slice it receives.  The records are left out, their numbers kept.       *)
(***************************************************************************)
\* Manager.estimateResourceCount
RECURSIVE clusterScopedCount(_, _)
clusterScopedCount(namespaceCount, resourceTypes) ==
    IF resourceTypes = <<>> THEN 0
    ELSE LET rt == Head(resourceTypes)
             rest == clusterScopedCount(namespaceCount, Tail(resourceTypes))
         IN  IF ~IsClusterScoped(rt) THEN rest
             ELSE IF rt = "namespaces" THEN namespaceCount + 10 + rest
             ELSE IF rt \in {"clusterroles", "clusterrolebindings"} THEN 50 + rest
             ELSE 20 + rest

RECURSIVE namespacedCount(_)
namespacedCount(resourceTypes) ==
    IF resourceTypes = <<>> THEN 0
    ELSE LET rt == Head(resourceTypes)
             rest == namespacedCount(Tail(resourceTypes))
         IN  IF IsClusterScoped(rt) THEN rest
             ELSE IF rt \in {"deployments", "services"} THEN 10 + rest
             ELSE IF rt \in {"configmaps", "secrets"} THEN 20 + rest
             ELSE 5 + rest

estimateResourceCount(namespaceCount, resourceTypes) ==
    LET estimated == clusterScopedCount(namespaceCount, resourceTypes)
                        + (namespacedCount(resourceTypes) * namespaceCount)
    IN  IF estimated < 100 THEN 100 ELSE estimated

\* The number of records one task can hand over
SliceLengths == {0, 1, 101}

\* Task 0 lists the cluster-scoped types, the others the namespaced types
\* that have a collector; a task with nothing to list sends an empty slice
ListsSomething(t, resourceTypes) ==
    callsOf(IF t = 0 THEN "" ELSE "a", resourceTypes) # <<>>

CountResourceTypes ==
    {<<"secrets">>, <<"namespaces", "configmaps", "secrets">>, SupportedResourceTypes}

NoProgress == [total |-> 0, completed |-> 0]

CountStart ==
    /\ ePc = "start"
    /\ eNamespaces \in 0..MaxCountNamespaces
    /\ eResourceTypes \in CountResourceTypes
    /\ eLeft = {}
    /\ eProgress = NoProgress
    /\ eReports = <<>>

CountIdle ==
    /\ ePc = "idle"
    /\ eNamespaces = 0
    /\ eResourceTypes = <<>>
    /\ eLeft = {}
    /\ eProgress = NoProgress
    /\ eReports = <<>>

\* backup.go:55-99: the estimate, the first callback, one task for the
\* cluster and one for each namespace
CountFanOut ==
    /\ ePc = "start"
    /\ LET progress == [total |-> estimateResourceCount(eNamespaces, eResourceTypes),
                        completed |-> 0]
       IN  /\ eProgress' = progress
           /\ eReports' = <<progress>>
    /\ eLeft' = 0..eNamespaces
    /\ ePc' = "collect"
    /\ UNCHANGED <<eNamespaces, eResourceTypes>>
    /\ CountFrame

\* backup.go:112-122: a slice is received, completed grows by its length and
\* the callback is called
CountReceive ==
    /\ ePc = "collect"
    /\ \E t \in eLeft, n \in SliceLengths :
          LET progress == [eProgress EXCEPT !.completed = @ + n]
          IN  /\ n > 0 => ListsSomething(t, eResourceTypes)
              /\ eProgress' = progress
              /\ eReports' = Append(eReports, progress)
              /\ eLeft' = eLeft \ {t}
    /\ UNCHANGED <<ePc, eNamespaces, eResourceTypes>>
    /\ CountFrame

\* backup.go:151-165: the callbacks before and after the save
CountSave ==
    /\ ePc = "collect"
    /\ eLeft = {}
    /\ \E saved \in BOOLEAN :
          eReports' = eReports \o (IF saved THEN <<eProgress, eProgress>>
                                   ELSE <<eProgress>>)
    /\ ePc' = "done"
    /\ UNCHANGED <<eNamespaces, eResourceTypes, eLeft, eProgress>>
    /\ CountFrame

CountNext == CountFanOut \/ CountReceive \/ CountSave

\* C38: in every Progress handed to the callback of CreateBackup, completed
\* is at least 0 and at most total, the estimate of estimateResourceCount.
C38_CompletedWithinTotal ==
    \A i \in 1..Len(eReports) :
        /\ 0 <= eReports[i].completed
        /\ eReports[i].completed <= eReports[i].total

\* The part of C38 about CreateBackup that holds: completed is never negative
C38_CompletedNotNegative ==
    \A i \in 1..Len(eReports) : 0 <= eReports[i].completed

\* The part of C38 about RestoreBackup: completed is the loop index, then the
\* length of the sequence, which is the total
C38_RestoreWithinTotal ==
    \A i \in 1..Len(rProgress) : 0 <= rProgress[i] /\ rProgress[i] <= Len(rSorted)

\* C39: in a save with compress, whenever the snapshot directory is gone the
\* archive is there and whole: written, finalized and closed.
C39_DirectoryRemovedAfterArchive ==
    (wMeta.compress /\ wPc \in {"closing", "returned"} /\ StepDir \notin DOMAIN fs)
        => /\ StepArchive \in DOMAIN fs
           /\ fs[StepArchive].type = "archive"

\* The part of C39 that holds: the directory is gone only when every file
\* of it has been handed to the tar writer without an error
C39_RemovedAfterWalk ==
    (wMeta.compress /\ wPc \in {"closing", "returned"} /\ StepDir \notin DOMAIN fs)
        => /\ wIo \in {"none", "close"}
           /\ StepArchive \in DOMAIN fs
           /\ wPc = "closing" => Len(fs[StepArchive].entries) > Len(wRecs)

\* What LoadBackup gives for the snapshot directory now
StepLoad == LoadBackup(fs, StepDir, FALSE)

\* C40: when a snapshot was saved under the name before and the later save
\* under the same name has failed or was cancelled, LoadBackup of the name
\* gives the records and contents of the earlier save.
C40_FailedSaveKeepsEarlier ==
    (wBefore # <<>> /\ wPc = "returned" /\ wErr # "nil")
        => /\ StepLoad.err = "nil"
           /\ StepLoad.resources = wBefore[1]

\* The part of C40 that holds: a save that is cancelled, which the loop
\* over record files sees before its first WriteFile, leaves the earlier
\* snapshot as it was
C40_CancelledSaveKeepsEarlier ==
    (wBefore # <<>> /\ wPc = "returned" /\ wErr = "context canceled")
        => /\ StepLoad.err = "nil"
           /\ StepLoad.resources = wBefore[1]

(***************************************************************************)
(* Specifications.                                                         *)
(***************************************************************************)
SortInit ==
    SortStart /\ RestoreIdle /\ StoreIdle /\ BackupIdle /\ FilterIdle /\ ListIdle /\ StepIdle
    /\ NormIdle /\ CountIdle

SortSpec == SortInit /\ [][SortNext]_vars

RestoreInit ==
    RestoreStart /\ SortIdle /\ StoreIdle /\ BackupIdle /\ FilterIdle /\ ListIdle /\ StepIdle
    /\ NormIdle /\ CountIdle

RestoreSpec == RestoreInit /\ [][RestoreNext]_vars

StoreInit ==
    StoreStart /\ SortIdle /\ RestoreIdle /\ BackupIdle /\ FilterIdle /\ ListIdle /\ StepIdle
    /\ NormIdle /\ CountIdle

StoreSpec == StoreInit /\ [][StoreNext]_vars

BackupInit ==
    BackupStart /\ SortIdle /\ RestoreIdle /\ StoreIdle /\ FilterIdle /\ ListIdle /\ StepIdle
    /\ NormIdle /\ CountIdle

BackupSpec == BackupInit /\ [][BackupNext]_vars

FilterInit ==
    FilterStart /\ SortIdle /\ RestoreIdle /\ StoreIdle /\ BackupIdle /\ ListIdle /\ StepIdle
    /\ NormIdle /\ CountIdle

FilterSpec == FilterInit /\ [][FilterNext]_vars

ListInit ==
    ListStart /\ SortIdle /\ RestoreIdle /\ StoreIdle /\ BackupIdle /\ FilterIdle
    /\ StepIdle /\ NormIdle /\ CountIdle

ListSpec == ListInit /\ [][ListNext]_vars

StepInit ==
    StepStart /\ SortIdle /\ RestoreIdle /\ StoreIdle /\ BackupIdle /\ FilterIdle
    /\ ListIdle /\ NormIdle /\ CountIdle

StepSpec == StepInit /\ [][StepNext]_vars

\* CreateBackup of two resource types into a directory, with a scheduler
\* that runs some goroutine that can run
BackupLiveStart ==
    /\ BackupStart
    /\ bOpts.namespaces # <<>>
    /\ bOpts.resourceTypes = <<"configmaps", "secrets">>
    /\ bOpts.excludeResourceTypes = <<>>
    /\ ~bOpts.compress

BackupLiveInit ==
    BackupLiveStart /\ SortIdle /\ RestoreIdle /\ StoreIdle /\ FilterIdle /\ ListIdle /\ StepIdle
    /\ NormIdle /\ CountIdle

BackupLiveSpec == BackupLiveInit /\ [][BackupNext]_vars /\ WF_vars(BackupNext)

\* One CreateBackup call or one RestoreBackup call
ProgressInit ==
    /\ SortIdle /\ StoreIdle /\ FilterIdle /\ ListIdle /\ StepIdle
    /\ NormIdle /\ CountIdle
    /\ \/ BackupStart /\ RestoreIdle
       \/ RestoreStart /\ BackupIdle

NormInit ==
    NormStart /\ SortIdle /\ RestoreIdle /\ StoreIdle /\ BackupIdle /\ FilterIdle
    /\ ListIdle /\ StepIdle /\ CountIdle

NormSpec == NormInit /\ [][NormNext]_vars

CountInit ==
    CountStart /\ SortIdle /\ RestoreIdle /\ StoreIdle /\ BackupIdle /\ FilterIdle
    /\ ListIdle /\ StepIdle /\ NormIdle

CountSpec == CountInit /\ [][CountNext]_vars

ProgressNext == BackupNext \/ RestoreNext

ProgressSpec == ProgressInit /\ [][ProgressNext]_vars

====
